---- MODULE Spec2Model ----
(***************************************************************************)
(* A model of the 6502 emulator of this repository (package nes/): the     *)
(* memory bus, the register file, the decode table, the addressing-mode    *)
(* resolver, the instruction executor and the CPU engine.                  *)
(*                                                                         *)
(* Arithmetic.  The program computes with NumPy scalars.  Its own tests    *)
(* (tests/test_instruction_selector.py: set_flag(C, False), which          *)
(* evaluates  uint8 & ~1) only run under NumPy 1.x, where a NumPy scalar   *)
(* combined with a Python int is promoted to int64 and is NOT wrapped:     *)
(*     uint8 (op) uint8   -> uint8   (wraps modulo 256)                    *)
(*     uint16 (op) uint8  -> uint16  (wraps modulo 65536)                  *)
(*     uintN (op) <Python int> -> int64 (exact)                            *)
(*     int64 (op) anything     -> int64 (exact)                            *)
(*     uint8(v), uint16(v) of a NumPy value: v modulo 256, 65536           *)
(*     ram[i] = v of an out-of-range int: v modulo 256 (with a warning)    *)
(* The model follows these rules expression by expression.  The values     *)
(* of the registers are therefore integers, and dtype records the NumPy    *)
(* type each currently has (it decides, for example, whether               *)
(* addr_abs += x wraps).                                                   *)
(***************************************************************************)
EXTENDS Integers, Sequences, FiniteSets, TLC

VARIABLES
    ram,        \* Bus.ram: the 64 KB array, kept as the map of its non-zero cells
    a, x, y,    \* Register.a, .x, .y
    stkp,       \* Register.stkp
    pc,         \* Register.pc
    status,     \* Register.status
    dtype,      \* NumPy dtype of a, x, y, stkp, pc, addr_abs
    addr_abs,   \* Cpu.addr_abs
    addr_rel,   \* Cpu.addr_rel
    opcode,     \* Cpu.opcode
    cycles,     \* Cpu.cycles
    fetched,    \* Cpu.fetched
    op,         \* history: the last call made by the driver
    arg,        \* history: its arguments
    ret,        \* history: its return value, << >> when it returned None or raised
    err,        \* history: the exception it raised, "none" when it returned
    ncalls,     \* history: number of reset/irq/nmi/select calls so far
    ndisp,      \* history: number of opcode fetches made by clock()
    cost,       \* history: the cycle count set by the last dispatch/reset/interrupt
    since,      \* history: clock() calls since then (the dispatching one included)
    hex_dump,   \* HexdumpViewer.hex_dump: row address -> the 16 bytes of the row
    hex_lines   \* HexdumpViewer.hex_lines, as the set of row addresses rendered

vars == <<ram, a, x, y, stkp, pc, status, dtype, addr_abs, addr_rel, opcode,
          cycles, fetched, op, arg, ret, err, ncalls, ndisp, cost, since,
          hex_dump, hex_lines>>

cpuvars == <<a, x, y, stkp, pc, status, dtype, addr_abs, addr_rel, opcode,
             cycles, fetched>>

ghostvars == <<ndisp, cost, since>>

viewvars == <<hex_dump, hex_lines>>

-----------------------------------------------------------------------------
(* Bit operations on integers (Python / NumPy semantics, two's complement). *)

RECURSIVE BitAnd(_, _)
BitAnd(m, n) ==
    IF m = 0 \/ n = 0 THEN 0
    ELSE IF m = -1 THEN n
    ELSE IF n = -1 THEN m
    ELSE (m % 2) * (n % 2) + 2 * BitAnd(m \div 2, n \div 2)

RECURSIVE BitOr(_, _)
BitOr(m, n) ==
    IF m = 0 THEN n
    ELSE IF n = 0 THEN m
    ELSE IF m = -1 \/ n = -1 THEN -1
    ELSE (IF m % 2 = 1 \/ n % 2 = 1 THEN 1 ELSE 0) + 2 * BitOr(m \div 2, n \div 2)

RECURSIVE BitXor(_, _)
BitXor(m, n) ==
    IF m = 0 THEN n
    ELSE IF n = 0 THEN m
    ELSE IF m = -1 THEN (-n) - 1
    ELSE IF n = -1 THEN (-m) - 1
    ELSE (IF m % 2 = n % 2 THEN 0 ELSE 1) + 2 * BitXor(m \div 2, n \div 2)

BitNot(m) == (-m) - 1

RECURSIVE Pow2(_)
Pow2(k) == IF k = 0 THEN 1 ELSE 2 * Pow2(k - 1)

Shl(m, k) == m * Pow2(k)
Shr(m, k) == m \div Pow2(k)

uint8(v) == v % 256
uint16(v) == v % 65536

-----------------------------------------------------------------------------
(* Flags (nes/flags.py; the copy under src/ is src/flags.py).              *)

Flags == {"C", "Z", "I", "D", "B", "U", "V", "N"}

FlagValue(f) ==
    CASE f = "C" -> 1
      [] f = "Z" -> 2
      [] f = "I" -> 4
      [] f = "D" -> 8
      [] f = "B" -> 16
      [] f = "U" -> 32
      [] f = "V" -> 64
      [] f = "N" -> 128

-----------------------------------------------------------------------------
(* Bus (nes/bus.py).  ram is zero-initialised; the model keeps the map of  *)
(* the cells that hold a non-zero byte, so every cell outside its domain   *)
(* holds 0.                                                                *)

ZeroRam == [i \in {} |-> 0]

RamAt(r, i) == IF i \in DOMAIN r THEN r[i] ELSE 0

\* ram[i] = v  on the uint8 array
Store(r, i, v) ==
    IF uint8(v) = 0
    THEN [j \in DOMAIN r \ {i} |-> r[j]]
    ELSE [j \in DOMAIN r \cup {i} |-> IF j = i THEN uint8(v) ELSE r[j]]

InRange(addr) == 0 <= addr /\ addr <= 65535

\* a Bus.write that mirrors the 2 KB of internal RAM, as the NES does
Bus_write_mut_mirror(r, addr, data) ==
    IF InRange(addr)
    THEN [ram |-> Store(r, addr % 2048, data), err |-> "none"]
    ELSE [ram |-> r, err |-> "IndexError"]

\* a Bus.write whose upper bound is off by one
Bus_write_mut_offby1(r, addr, data) ==
    IF 0 <= addr /\ addr <= 65536
    THEN [ram |-> Store(r, addr % 65536, data), err |-> "none"]
    ELSE [ram |-> r, err |-> "IndexError"]

\* Bus.write: the new ram, and the exception raised
Bus_write(r, addr, data) ==
    IF InRange(addr)
    THEN [ram |-> Store(r, addr, data), err |-> "none"]
    ELSE [ram |-> r, err |-> "IndexError"]

\* a Bus.read that wraps the address instead of testing it
Bus_read_mut_wrap(r, addr) == RamAt(r, addr % 65536)

\* Bus.read: the byte returned (it never raises and never stores)
Bus_read(r, addr) ==
    IF InRange(addr) THEN RamAt(r, addr) ELSE 0

-----------------------------------------------------------------------------
(* Register (nes/register.py).                                             *)

\* Register.get_flag on a status value
Register_get_flag(st, f) ==
    IF BitAnd(st, uint8(FlagValue(f))) > 0 THEN 1 ELSE 0

\* a Register.set_flag that clears by toggling the bit
Register_set_flag_mut_toggle(st, f, value) ==
    IF value
    THEN BitOr(st, uint8(FlagValue(f)))
    ELSE BitXor(st, FlagValue(f))

\* Register.set_flag on a status value: the new status
Register_set_flag(st, f, value) ==
    IF value
    THEN BitOr(st, uint8(FlagValue(f)))
    ELSE BitAnd(st, BitNot(FlagValue(f)))

-----------------------------------------------------------------------------
(* The CPU as one record, so that a handler is a function from the state   *)
(* before it to the state after it.  err is the exception that is          *)
(* propagating ("none" while running) and rv the handler's return value.   *)
(* ndisp and cost are the history counters, advanced where clock() fetches *)
(* an opcode and where it has settled the instruction's cycle count.       *)

Cur ==
    [ram |-> ram, a |-> a, x |-> x, y |-> y, stkp |-> stkp, pc |-> pc,
     status |-> status, dtype |-> dtype, addr_abs |-> addr_abs,
     addr_rel |-> addr_rel, opcode |-> opcode, cycles |-> cycles,
     fetched |-> fetched, err |-> "none", rv |-> FALSE,
     ndisp |-> ndisp, cost |-> cost]

Install(s) ==
    /\ ram' = s.ram
    /\ a' = s.a
    /\ x' = s.x
    /\ y' = s.y
    /\ stkp' = s.stkp
    /\ pc' = s.pc
    /\ status' = s.status
    /\ dtype' = s.dtype
    /\ addr_abs' = s.addr_abs
    /\ addr_rel' = s.addr_rel
    /\ opcode' = s.opcode
    /\ cycles' = s.cycles
    /\ fetched' = s.fetched

\* statements after a raise are not executed
Then(s, F(_)) == IF s.err = "none" THEN F(s) ELSE s

\* a local name for the value e in F
Let(e, F(_)) == F(e)

\* Olc6502.read / Olc6502.write delegate to the bus
Olc6502_read(s, addr) == Bus_read(s.ram, addr)

Olc6502_write(s, addr, data) ==
    Let(Bus_write(s.ram, addr, data), LAMBDA w :
    [s EXCEPT !.ram = w.ram, !.err = w.err])

\* Olc6502.get_flag / Olc6502.set_flag delegate to the register file
get_flag(s, f) == Register_get_flag(s.status, f)

set_flag(s, f, value) == [s EXCEPT !.status = Register_set_flag(@, f, value)]

-----------------------------------------------------------------------------
(* NumPy 1.x scalar arithmetic.  A Python int operand counts as int64.     *)

Promote(t1, t2) ==
    IF t1 = "int64" \/ t2 = "int64" THEN "int64"
    ELSE IF t1 = "uint16" \/ t2 = "uint16" THEN "uint16"
    ELSE "uint8"

Cast(t, v) ==
    CASE t = "uint8" -> v % 256
      [] t = "uint16" -> v % 65536
      [] t = "int64" -> v

NpAdd(v1, t1, v2, t2) == Cast(Promote(t1, t2), v1 + v2)

-----------------------------------------------------------------------------
(* Decode table (nes/isa.py, InstructionLookupTable.table): one row per    *)
(* opcode 0x00..0xFF: mnemonic, addressing mode, cycles, size.             *)

TableRows ==
    <<
      <<"BRK", "IMM", 7, 1>>, <<"ORA", "IZX", 6, 2>>, <<"JAM", "IMP", 2, 0>>, <<"JAM", "IMP", 8, 0>>,
      <<"JAM", "IMP", 3, 0>>, <<"ORA", "ZP0", 3, 2>>, <<"ASL", "ZP0", 5, 2>>, <<"JAM", "IMP", 5, 0>>,
      <<"PHP", "IMP", 3, 1>>, <<"ORA", "IMM", 2, 2>>, <<"ASL", "IMP", 2, 2>>, <<"JAM", "IMP", 2, 0>>,
      <<"JAM", "IMP", 4, 0>>, <<"ORA", "ABS", 4, 3>>, <<"ASL", "ABS", 6, 3>>, <<"JAM", "IMP", 6, 0>>,
      <<"BPL", "REL", 2, 2>>, <<"ORA", "IZY", 5, 2>>, <<"JAM", "IMP", 2, 0>>, <<"JAM", "IMP", 8, 0>>,
      <<"JAM", "IMP", 4, 0>>, <<"ORA", "ZPX", 4, 2>>, <<"ASL", "ZPX", 6, 2>>, <<"JAM", "IMP", 6, 0>>,
      <<"CLC", "IMP", 2, 1>>, <<"ORA", "ABY", 4, 3>>, <<"JAM", "IMP", 2, 0>>, <<"JAM", "IMP", 7, 0>>,
      <<"JAM", "IMP", 4, 0>>, <<"ORA", "ABX", 4, 3>>, <<"ASL", "ABX", 7, 3>>, <<"JAM", "IMP", 7, 0>>,
      <<"JSR", "ABS", 6, 3>>, <<"AND", "IZX", 6, 2>>, <<"JAM", "IMP", 2, 0>>, <<"JAM", "IMP", 8, 0>>,
      <<"BIT", "ZP0", 3, 2>>, <<"AND", "ZP0", 3, 2>>, <<"ROL", "ZP0", 5, 2>>, <<"JAM", "IMP", 5, 0>>,
      <<"PLP", "IMP", 4, 1>>, <<"AND", "IMM", 2, 2>>, <<"ROL", "IMP", 2, 1>>, <<"JAM", "IMP", 2, 0>>,
      <<"BIT", "ABS", 4, 3>>, <<"AND", "ABS", 4, 3>>, <<"ROL", "ABS", 6, 3>>, <<"JAM", "IMP", 6, 0>>,
      <<"BMI", "REL", 2, 2>>, <<"AND", "IZY", 5, 2>>, <<"JAM", "IMP", 2, 0>>, <<"JAM", "IMP", 8, 0>>,
      <<"JAM", "IMP", 4, 0>>, <<"AND", "ZPX", 4, 2>>, <<"ROL", "ZPX", 6, 2>>, <<"JAM", "IMP", 6, 0>>,
      <<"SEC", "IMP", 2, 1>>, <<"AND", "ABY", 4, 3>>, <<"JAM", "IMP", 2, 0>>, <<"JAM", "IMP", 7, 0>>,
      <<"JAM", "IMP", 4, 0>>, <<"AND", "ABX", 4, 3>>, <<"ROL", "ABX", 7, 3>>, <<"JAM", "IMP", 7, 0>>,
      <<"RTI", "IMP", 6, 1>>, <<"EOR", "IZX", 6, 2>>, <<"JAM", "IMP", 2, 0>>, <<"JAM", "IMP", 8, 0>>,
      <<"JAM", "IMP", 3, 0>>, <<"EOR", "ZP0", 3, 2>>, <<"LSR", "ZP0", 5, 2>>, <<"JAM", "IMP", 5, 0>>,
      <<"PHA", "IMP", 3, 1>>, <<"EOR", "IMM", 2, 2>>, <<"LSR", "IMP", 2, 1>>, <<"JAM", "IMP", 2, 0>>,
      <<"JMP", "ABS", 3, 3>>, <<"EOR", "ABS", 4, 3>>, <<"LSR", "ABS", 6, 3>>, <<"JAM", "IMP", 6, 0>>,
      <<"BVC", "REL", 2, 2>>, <<"EOR", "IZY", 5, 2>>, <<"JAM", "IMP", 2, 0>>, <<"JAM", "IMP", 8, 0>>,
      <<"JAM", "IMP", 4, 0>>, <<"EOR", "ZPX", 4, 2>>, <<"LSR", "ZPX", 6, 2>>, <<"JAM", "IMP", 6, 0>>,
      <<"CLI", "IMP", 2, 1>>, <<"EOR", "ABY", 4, 3>>, <<"JAM", "IMP", 2, 0>>, <<"JAM", "IMP", 7, 0>>,
      <<"JAM", "IMP", 4, 0>>, <<"EOR", "ABX", 4, 3>>, <<"LSR", "ABX", 7, 3>>, <<"JAM", "IMP", 7, 0>>,
      <<"RTS", "IMP", 6, 1>>, <<"ADC", "IZX", 6, 2>>, <<"JAM", "IMP", 2, 0>>, <<"JAM", "IMP", 8, 0>>,
      <<"JAM", "IMP", 3, 0>>, <<"ADC", "ZP0", 3, 2>>, <<"ROR", "ZP0", 5, 2>>, <<"JAM", "IMP", 5, 0>>,
      <<"PLA", "IMP", 4, 1>>, <<"ADC", "IMM", 2, 2>>, <<"ROR", "IMP", 2, 1>>, <<"JAM", "IMP", 2, 0>>,
      <<"JMP", "IND", 5, 3>>, <<"ADC", "ABS", 4, 3>>, <<"ROR", "ABS", 6, 3>>, <<"JAM", "IMP", 6, 0>>,
      <<"BVS", "REL", 2, 2>>, <<"ADC", "IZY", 5, 2>>, <<"JAM", "IMP", 2, 0>>, <<"JAM", "IMP", 8, 0>>,
      <<"JAM", "IMP", 4, 0>>, <<"ADC", "ZPX", 4, 2>>, <<"ROR", "ZPX", 6, 2>>, <<"JAM", "IMP", 6, 0>>,
      <<"SEI", "IMP", 2, 1>>, <<"ADC", "ABY", 4, 3>>, <<"JAM", "IMP", 2, 0>>, <<"JAM", "IMP", 7, 0>>,
      <<"JAM", "IMP", 4, 0>>, <<"ADC", "ABX", 4, 3>>, <<"ROR", "ABX", 7, 3>>, <<"JAM", "IMP", 7, 0>>,
      <<"JAM", "IMP", 2, 0>>, <<"STA", "IZX", 6, 2>>, <<"JAM", "IMP", 2, 0>>, <<"JAM", "IMP", 6, 0>>,
      <<"STY", "ZP0", 3, 2>>, <<"STA", "ZP0", 3, 2>>, <<"STX", "ZP0", 3, 2>>, <<"JAM", "IMP", 3, 0>>,
      <<"DEY", "IMP", 2, 1>>, <<"JAM", "IMP", 2, 0>>, <<"TXA", "IMP", 2, 1>>, <<"JAM", "IMP", 2, 0>>,
      <<"STY", "ABS", 4, 3>>, <<"STA", "ABS", 4, 3>>, <<"STX", "ABS", 4, 3>>, <<"JAM", "IMP", 4, 0>>,
      <<"BCC", "REL", 2, 2>>, <<"STA", "IZY", 6, 2>>, <<"JAM", "IMP", 2, 0>>, <<"JAM", "IMP", 6, 0>>,
      <<"STY", "ZPX", 4, 2>>, <<"STA", "ZPX", 4, 2>>, <<"STX", "ZPY", 4, 2>>, <<"JAM", "IMP", 4, 0>>,
      <<"TYA", "IMP", 2, 1>>, <<"STA", "ABY", 5, 3>>, <<"TXS", "IMP", 2, 1>>, <<"JAM", "IMP", 5, 0>>,
      <<"JAM", "IMP", 5, 0>>, <<"STA", "ABX", 5, 3>>, <<"JAM", "IMP", 5, 0>>, <<"JAM", "IMP", 5, 0>>,
      <<"LDY", "IMM", 2, 2>>, <<"LDA", "IZX", 6, 2>>, <<"LDX", "IMM", 2, 2>>, <<"JAM", "IMP", 6, 0>>,
      <<"LDY", "ZP0", 3, 2>>, <<"LDA", "ZP0", 3, 2>>, <<"LDX", "ZP0", 3, 2>>, <<"JAM", "IMP", 3, 0>>,
      <<"TAY", "IMP", 2, 1>>, <<"LDA", "IMM", 2, 2>>, <<"TAX", "IMP", 2, 1>>, <<"JAM", "IMP", 2, 0>>,
      <<"LDY", "ABS", 4, 3>>, <<"LDA", "ABS", 4, 3>>, <<"LDX", "ABS", 4, 3>>, <<"JAM", "IMP", 4, 0>>,
      <<"BCS", "REL", 2, 2>>, <<"LDA", "IZY", 5, 2>>, <<"JAM", "IMP", 2, 0>>, <<"JAM", "IMP", 5, 0>>,
      <<"LDY", "ZPX", 4, 2>>, <<"LDA", "ZPX", 4, 2>>, <<"LDX", "ZPY", 4, 2>>, <<"JAM", "IMP", 4, 0>>,
      <<"CLV", "IMP", 2, 1>>, <<"LDA", "ABY", 4, 3>>, <<"TSX", "IMP", 2, 1>>, <<"JAM", "IMP", 4, 0>>,
      <<"LDY", "ABX", 4, 3>>, <<"LDA", "ABX", 4, 3>>, <<"LDX", "ABY", 4, 3>>, <<"JAM", "IMP", 4, 0>>,
      <<"CPY", "IMM", 2, 2>>, <<"CMP", "IZX", 6, 2>>, <<"JAM", "IMP", 2, 0>>, <<"JAM", "IMP", 8, 0>>,
      <<"CPY", "ZP0", 3, 2>>, <<"CMP", "ZP0", 3, 2>>, <<"DEC", "ZP0", 5, 2>>, <<"JAM", "IMP", 5, 0>>,
      <<"INY", "IMP", 2, 1>>, <<"CMP", "IMM", 2, 2>>, <<"DEX", "IMP", 2, 1>>, <<"JAM", "IMP", 2, 0>>,
      <<"CPY", "ABS", 4, 3>>, <<"CMP", "ABS", 4, 3>>, <<"DEC", "ABS", 6, 3>>, <<"JAM", "IMP", 6, 0>>,
      <<"BNE", "REL", 2, 2>>, <<"CMP", "IZY", 5, 2>>, <<"JAM", "IMP", 2, 0>>, <<"JAM", "IMP", 8, 0>>,
      <<"JAM", "IMP", 4, 0>>, <<"CMP", "ZPX", 4, 2>>, <<"DEC", "ZPX", 6, 2>>, <<"JAM", "IMP", 6, 0>>,
      <<"CLD", "IMP", 2, 1>>, <<"CMP", "ABY", 4, 3>>, <<"NOP", "IMP", 2, 1>>, <<"JAM", "IMP", 7, 0>>,
      <<"JAM", "IMP", 4, 0>>, <<"CMP", "ABX", 4, 3>>, <<"DEC", "ABX", 7, 3>>, <<"JAM", "IMP", 7, 0>>,
      <<"CPX", "IMM", 2, 2>>, <<"SBC", "IZX", 6, 2>>, <<"JAM", "IMP", 2, 0>>, <<"JAM", "IMP", 8, 0>>,
      <<"CPX", "ZP0", 3, 2>>, <<"SBC", "ZP0", 3, 2>>, <<"INC", "ZP0", 5, 2>>, <<"JAM", "IMP", 5, 0>>,
      <<"INX", "IMP", 2, 1>>, <<"SBC", "IMM", 2, 2>>, <<"NOP", "IMP", 2, 1>>, <<"JAM", "IMP", 2, 0>>,
      <<"CPX", "ABS", 4, 3>>, <<"SBC", "ABS", 4, 3>>, <<"INC", "ABS", 6, 3>>, <<"JAM", "IMP", 6, 0>>,
      <<"BEQ", "REL", 2, 2>>, <<"SBC", "IZY", 5, 2>>, <<"JAM", "IMP", 2, 0>>, <<"JAM", "IMP", 8, 0>>,
      <<"JAM", "IMP", 4, 0>>, <<"SBC", "ZPX", 4, 2>>, <<"INC", "ZPX", 6, 2>>, <<"JAM", "IMP", 6, 0>>,
      <<"SED", "IMP", 2, 1>>, <<"SBC", "ABY", 4, 3>>, <<"NOP", "IMP", 2, 1>>, <<"JAM", "IMP", 7, 0>>,
      <<"JAM", "IMP", 4, 0>>, <<"SBC", "ABX", 4, 3>>, <<"INC", "ABX", 7, 3>>, <<"JAM", "IMP", 7, 0>>
    >>

\* InstructionLookupTable.table[opcode]
Lookup(opc) ==
    Let(TableRows[opc + 1], LAMBDA r :
    [opcode |-> r[1], addr_mode |-> r[2], cycles |-> r[3], size |-> r[4]])

\* the members of Opcodes that the table names
Opcodes == {TableRows[i][1] : i \in 1..256}

-----------------------------------------------------------------------------
(* Addressing-mode resolver (nes/address_mode_selector.py).  Each mode     *)
(* maps the CPU record to the CPU record after it; rv is its return value. *)

IncPc(s) == [s EXCEPT !.pc = @ + 1, !.dtype.pc = "int64"]

IMP(s) == [s EXCEPT !.rv = FALSE]

IMM(s) ==
    Let(IncPc(s), LAMBDA s1 :
    [s1 EXCEPT !.addr_abs = s1.pc, !.dtype.addr_abs = s1.dtype.pc,
                   !.rv = FALSE])

ZP0(s) ==
    Let(uint16(Olc6502_read(s, s.pc)), LAMBDA t :
    Let(IncPc(s), LAMBDA s1 :
    [s1 EXCEPT !.addr_abs = BitAnd(t, uint16(255)),
                   !.dtype.addr_abs = "uint16", !.rv = FALSE]))

\* a ZPX without the mask that keeps the address in page 0
ZPX_mut_nomask(s) ==
    Let(NpAdd(uint16(Olc6502_read(s, s.pc)), "uint16", s.x, s.dtype.x), LAMBDA t :
    Let([s EXCEPT !.addr_abs = uint16(t),
                        !.dtype.addr_abs = "uint16"], LAMBDA s1 :
    [IncPc(s1) EXCEPT !.rv = FALSE]))

ZPX(s) ==
    Let(NpAdd(Olc6502_read(s, s.pc), "uint8", s.x, s.dtype.x), LAMBDA t :
    Let([s EXCEPT !.addr_abs = BitAnd(uint16(t), uint16(255)),
                        !.dtype.addr_abs = "uint16"], LAMBDA s1 :
    [IncPc(s1) EXCEPT !.rv = FALSE]))

ZPY(s) ==
    Let(NpAdd(Olc6502_read(s, s.pc), "uint8", s.y, s.dtype.y), LAMBDA t :
    Let([s EXCEPT !.addr_abs = BitAnd(uint16(t), uint16(255)),
                        !.dtype.addr_abs = "uint16"], LAMBDA s1 :
    [IncPc(s1) EXCEPT !.rv = FALSE]))

REL(s) ==
    Let(uint16(Olc6502_read(s, s.pc)), LAMBDA r :
    Let(IncPc(s), LAMBDA s1 :
    [s1 EXCEPT !.addr_rel = IF BitAnd(r, 128) # 0
                                THEN BitOr(r, uint16(65280))
                                ELSE r,
                   !.rv = FALSE]))

ABS(s) ==
    Let(Olc6502_read(s, s.pc), LAMBDA lo :
    Let(IncPc(s), LAMBDA s1 :
    Let(Olc6502_read(s1, s1.pc), LAMBDA hi :
    Let(IncPc(s1), LAMBDA s2 :
    [s2 EXCEPT !.addr_abs = uint16(BitOr(Shl(hi, 8), lo)),
                   !.dtype.addr_abs = "uint16", !.rv = FALSE]))))

\* addr_abs += register, and the page-cross test against hi
Indexed(s, hi, r, rt) ==
    Let(NpAdd(s.addr_abs, "uint16", r, rt), LAMBDA sum :
    [s EXCEPT !.addr_abs = sum,
                  !.dtype.addr_abs = Promote("uint16", rt),
                  !.rv = (BitAnd(sum, 65280) # Shl(uint16(hi), 8))])

ABX(s) ==
    Let(Olc6502_read(s, s.pc), LAMBDA lo :
    Let(IncPc(s), LAMBDA s1 :
    Let(Olc6502_read(s1, s1.pc), LAMBDA hi :
    Let(IncPc(s1), LAMBDA s2 :
    Let([s2 EXCEPT !.addr_abs = uint16(BitOr(Shl(hi, 8), lo)),
                         !.dtype.addr_abs = "uint16"], LAMBDA s3 :
    Indexed(s3, hi, s3.x, s3.dtype.x))))))

ABY(s) ==
    Let(Olc6502_read(s, s.pc), LAMBDA lo :
    Let(IncPc(s), LAMBDA s1 :
    Let(Olc6502_read(s1, s1.pc), LAMBDA hi :
    Let(IncPc(s1), LAMBDA s2 :
    Let([s2 EXCEPT !.addr_abs = uint16(BitOr(Shl(hi, 8), lo)),
                         !.dtype.addr_abs = "uint16"], LAMBDA s3 :
    Indexed(s3, hi, s3.y, s3.dtype.y))))))

\* an IND without the page-wrap defect: the high byte always from ptr + 1
IND_mut_nodefect(s) ==
    Let(Olc6502_read(s, s.pc), LAMBDA ptr_lo :
    Let(IncPc(s), LAMBDA s1 :
    Let(Olc6502_read(s1, s1.pc), LAMBDA ptr_hi :
    Let(IncPc(s1), LAMBDA s2 :
    Let(uint16(BitOr(Shl(ptr_hi, 8), ptr_lo)), LAMBDA ptr :
    Let(BitOr(uint16(Shl(Olc6502_read(s2, uint16(ptr + 1)), 8)),
              uint16(Olc6502_read(s2, ptr))), LAMBDA target :
    [s2 EXCEPT !.addr_abs = target, !.dtype.addr_abs = "uint16",
               !.rv = FALSE]))))))

IND(s) ==
    Let(Olc6502_read(s, s.pc), LAMBDA ptr_lo :
    Let(IncPc(s), LAMBDA s1 :
    Let(Olc6502_read(s1, s1.pc), LAMBDA ptr_hi :
    Let(IncPc(s1), LAMBDA s2 :
    Let(uint16(BitOr(Shl(ptr_hi, 8), ptr_lo)), LAMBDA ptr :
    Let(IF ptr_lo = 255
        THEN BitOr(uint16(Shl(Olc6502_read(s2, BitAnd(ptr, uint16(65280))), 8)),
                   uint16(Olc6502_read(s2, ptr)))
        ELSE BitOr(uint16(Shl(Olc6502_read(s2, uint16(ptr + 1)), 8)),
                   uint16(Olc6502_read(s2, ptr))), LAMBDA target :
    [s2 EXCEPT !.addr_abs = target, !.dtype.addr_abs = "uint16",
               !.rv = FALSE]))))))

IZX(s) ==
    Let(Olc6502_read(s, s.pc), LAMBDA t :
    Let(IncPc(s), LAMBDA s1 :
    Let(NpAdd(t, "uint8", s1.x, s1.dtype.x), LAMBDA tx :
    Let(Olc6502_read(s1, BitAnd(tx, uint16(255))), LAMBDA lo :
    Let(Olc6502_read(s1, BitAnd(tx + 1, uint16(255))), LAMBDA hi :
    [s1 EXCEPT !.addr_abs = uint16(BitOr(Shl(hi, 8), lo)),
                   !.dtype.addr_abs = "uint16", !.rv = FALSE])))))

IZY(s) ==
    Let(Olc6502_read(s, s.pc), LAMBDA t :
    Let(IncPc(s), LAMBDA s1 :
    Let(Olc6502_read(s1, uint16(t)), LAMBDA lo :
    Let(Olc6502_read(s1, BitAnd(t + 1, 255)), LAMBDA hi :
    Let([s1 EXCEPT !.addr_abs = uint16(BitOr(Shl(hi, 8), lo)),
                         !.dtype.addr_abs = "uint16"], LAMBDA s2 :
    Indexed(s2, hi, s2.y, s2.dtype.y))))))

\* AddressModeSelector.select: every mode the table names has a method
AddressModeSelector_select(s, mode) ==
    CASE mode = "IMP" -> IMP(s)
      [] mode = "IMM" -> IMM(s)
      [] mode = "ZP0" -> ZP0(s)
      [] mode = "ZPX" -> ZPX(s)
      [] mode = "ZPY" -> ZPY(s)
      [] mode = "REL" -> REL(s)
      [] mode = "ABS" -> ABS(s)
      [] mode = "ABX" -> ABX(s)
      [] mode = "ABY" -> ABY(s)
      [] mode = "IND" -> IND(s)
      [] mode = "IZX" -> IZX(s)
      [] mode = "IZY" -> IZY(s)

-----------------------------------------------------------------------------
(* Instruction executor (nes/instruction_selector.py).  Each handler maps  *)
(* the CPU record to the CPU record after it; rv is its return value.      *)

\* Olc6502.fetch: the state after it; the value returned is its .fetched
fetch(s) ==
    IF Lookup(s.opcode).addr_mode # "IMP"
    THEN [s EXCEPT !.fetched = Olc6502_read(s, s.addr_abs)]
    ELSE s

\* ~v on a uint16
Inv16(v) == uint16(BitNot(v))

DecStkp(s) == [s EXCEPT !.stkp = @ - 1, !.dtype.stkp = "int64"]
IncStkp(s) == [s EXCEPT !.stkp = @ + 1, !.dtype.stkp = "int64"]

\* an ADC that leaves the carry-in out of the sum
ADC_mut_nocarry(s) ==
    Let(fetch(s), LAMBDA s1 :
    Let(uint16(s1.fetched), LAMBDA f :
    Let(uint16(uint16(s1.a) + f), LAMBDA temp :
    Let(set_flag(s1, "C", temp > uint16(255)), LAMBDA s2 :
    Let(set_flag(s2, "Z", BitAnd(temp, uint16(255)) = 0), LAMBDA s3 :
    Let(set_flag(s3, "N", BitAnd(temp, uint16(128)) # 0), LAMBDA s4 :
    Let(uint16(s4.a), LAMBDA a16 :
    Let(set_flag(s4, "V",
                  BitAnd(uint16(BitAnd(Inv16(BitXor(a16, f)), BitXor(a16, temp))),
                         uint16(128)) # 0), LAMBDA s5 :
    [s5 EXCEPT !.a = uint8(BitAnd(temp, uint16(255))), !.dtype.a = "uint8",
                   !.rv = TRUE]))))))))

ADC(s) ==
    Let(fetch(s), LAMBDA s1 :
    Let(uint16(s1.fetched), LAMBDA f :
    Let(uint16(uint16(s1.a) + f + uint16(get_flag(s1, "C"))), LAMBDA temp :
    Let(set_flag(s1, "C", temp > uint16(255)), LAMBDA s2 :
    Let(set_flag(s2, "Z", BitAnd(temp, uint16(255)) = 0), LAMBDA s3 :
    Let(set_flag(s3, "N", BitAnd(temp, uint16(128)) # 0), LAMBDA s4 :
    Let(uint16(s4.a), LAMBDA a16 :
    Let(set_flag(s4, "V",
                  BitAnd(uint16(BitAnd(Inv16(BitXor(a16, f)), BitXor(a16, temp))),
                         uint16(128)) # 0), LAMBDA s5 :
    [s5 EXCEPT !.a = uint8(BitAnd(temp, uint16(255))), !.dtype.a = "uint8",
                   !.rv = TRUE]))))))))

SBC(s) ==
    Let(fetch(s), LAMBDA s1 :
    Let(uint16(s1.fetched), LAMBDA f :
    Let(BitXor(uint16(f), uint16(255)), LAMBDA value :
    Let(uint16(uint16(s1.a) + value + uint16(get_flag(s1, "C"))), LAMBDA temp :
    Let(set_flag(s1, "C", BitAnd(temp, uint16(65280)) # 0), LAMBDA s2 :
    Let(set_flag(s2, "Z", BitAnd(temp, uint16(255)) = 0), LAMBDA s3 :
    Let(set_flag(s3, "N", BitAnd(temp, uint16(128)) # 0), LAMBDA s4 :
    Let(uint16(s4.a), LAMBDA a16 :
    Let(set_flag(s4, "V",
                  BitAnd(uint16(BitAnd(BitXor(a16, value), BitXor(a16, temp))),
                         uint16(128)) # 0), LAMBDA s5 :
    [s5 EXCEPT !.a = uint8(BitAnd(temp, uint16(255))), !.dtype.a = "uint8",
                   !.rv = TRUE])))))))))

AND(s) ==
    Let(fetch(s), LAMBDA s1 :
    Let([s1 EXCEPT !.a = BitAnd(@, s1.fetched),
                         !.dtype.a = Promote(@, "uint8")], LAMBDA s2 :
    Let(set_flag(s2, "Z", s2.a = 0), LAMBDA s3 :
    Let(set_flag(s3, "N", BitAnd(s3.a, uint8(128)) # 0), LAMBDA s4 :
    [s4 EXCEPT !.rv = TRUE]))))

\* the tail shared by ASL, LSR, ROL, ROR: store temp & 0xFF in a or at addr_abs
ShiftStore(s, temp) ==
    IF Lookup(s.opcode).addr_mode = "IMP"
    THEN [s EXCEPT !.a = uint8(BitAnd(temp, 255)), !.dtype.a = "uint8",
                   !.rv = FALSE]
    ELSE Then(Olc6502_write(s, s.addr_abs, uint8(BitAnd(temp, 255))),
              LAMBDA t : [t EXCEPT !.rv = FALSE])

ASL(s) ==
    Let(fetch(s), LAMBDA s1 :
    Let(uint16(Shl(uint16(s1.fetched), 1)), LAMBDA temp :
    Let(set_flag(s1, "C", BitAnd(temp, 65280) # 0), LAMBDA s2 :
    Let(set_flag(s2, "Z", BitAnd(temp, 255) = 0), LAMBDA s3 :
    Let(set_flag(s3, "N", BitAnd(temp, 128) # 0), LAMBDA s4 :
    ShiftStore(s4, temp))))))

\* the body shared by the branch handlers
Branch(s, taken) ==
    IF taken
    THEN Let([s EXCEPT !.cycles = @ + 1], LAMBDA s1 :
         Let(NpAdd(s1.pc, s1.dtype.pc, s1.addr_rel, "uint16"), LAMBDA target :
         Let([s1 EXCEPT !.addr_abs = target,
                        !.dtype.addr_abs = Promote(s1.dtype.pc, "uint16")], LAMBDA s2 :
         Let(IF BitAnd(s2.addr_abs, 65280) # BitAnd(s2.pc, 65280)
             THEN [s2 EXCEPT !.cycles = @ + 1]
             ELSE s2, LAMBDA s3 :
         [s3 EXCEPT !.pc = s3.addr_abs, !.dtype.pc = s3.dtype.addr_abs,
                    !.rv = FALSE]))))
    ELSE [s EXCEPT !.rv = FALSE]

BCC(s) == Branch(s, get_flag(s, "C") = 0)
BCS(s) == Branch(s, get_flag(s, "C") = 1)
BEQ(s) == Branch(s, get_flag(s, "Z") = 1)

BIT(s) ==
    Let(fetch(s), LAMBDA s1 :
    Let(BitAnd(s1.a, s1.fetched), LAMBDA temp :
    Let(set_flag(s1, "Z", temp = 0), LAMBDA s2 :
    Let(set_flag(s2, "N", BitAnd(s1.fetched, Shl(1, 7)) # 0), LAMBDA s3 :
    Let(set_flag(s3, "V", BitAnd(s1.fetched, Shl(1, 6)) # 0), LAMBDA s4 :
    [s4 EXCEPT !.rv = FALSE])))))

BMI(s) == Branch(s, get_flag(s, "N") = 1)
BNE(s) == Branch(s, get_flag(s, "Z") = 0)
BPL(s) == Branch(s, get_flag(s, "N") = 0)

BRK(s) ==
    Let(set_flag(IncPc(s), "I", TRUE), LAMBDA s1 :
    Let(Olc6502_write(s1, s1.stkp + 256, BitAnd(Shr(s1.pc, 8), 255)), LAMBDA s2 :
    Let(Then(s2, DecStkp), LAMBDA s3 :
    Let(Then(s3, LAMBDA t : Olc6502_write(t, t.stkp + 256, BitAnd(t.pc, 255))), LAMBDA s4 :
    Let(Then(s4, DecStkp), LAMBDA s5 :
    Let(Then(s5, LAMBDA t : set_flag(t, "B", TRUE)), LAMBDA s6 :
    Let(Then(s6, LAMBDA t : Olc6502_write(t, t.stkp, t.status)), LAMBDA s7 :
    Let(Then(s7, DecStkp), LAMBDA s8 :
    Let(Then(s8, LAMBDA t : set_flag(t, "B", FALSE)), LAMBDA s9 :
    Then(s9, LAMBDA t :
            [t EXCEPT !.pc = uint16(BitOr(uint16(Olc6502_read(t, uint16(65534))),
                                          Shl(uint16(uint16(Olc6502_read(t, uint16(65535)))), 8))),
                      !.dtype.pc = "uint16", !.rv = FALSE]))))))))))

\* a CLD pasted from CLC with the flag left unchanged
CLD_mut_clc(s) == [set_flag(s, "C", FALSE) EXCEPT !.rv = FALSE]

CLC(s) == [set_flag(s, "C", FALSE) EXCEPT !.rv = FALSE]
CLD(s) == [set_flag(s, "D", FALSE) EXCEPT !.rv = FALSE]
CLI(s) == [set_flag(s, "I", FALSE) EXCEPT !.rv = FALSE]
CLV(s) == [set_flag(s, "V", FALSE) EXCEPT !.rv = FALSE]

\* the body shared by CMP, CPX, CPY on register value r
\* a compare that stores the difference in the operand cell
Compare_mut_store(s, r, rv) ==
    Let(fetch(s), LAMBDA s1 :
    Let(uint16(uint16(r) - uint16(s1.fetched)), LAMBDA temp :
    Let(set_flag(s1, "C", r >= s1.fetched), LAMBDA s2 :
    Let(set_flag(s2, "Z", BitAnd(temp, 255) = 0), LAMBDA s3 :
    Let(set_flag(s3, "N", BitAnd(temp, 128) # 0), LAMBDA s4 :
    Let(Olc6502_write(s4, s4.addr_abs, BitAnd(temp, 255)), LAMBDA s5 :
    Then(s5, LAMBDA t : [t EXCEPT !.rv = rv])))))))

Compare(s, r, rv) ==
    Let(fetch(s), LAMBDA s1 :
    Let(uint16(uint16(r) - uint16(s1.fetched)), LAMBDA temp :
    Let(set_flag(s1, "C", r >= s1.fetched), LAMBDA s2 :
    Let(set_flag(s2, "Z", BitAnd(temp, 255) = 0), LAMBDA s3 :
    Let(set_flag(s3, "N", BitAnd(temp, 128) # 0), LAMBDA s4 :
    [s4 EXCEPT !.rv = rv])))))

CMP(s) == Compare(s, s.a, TRUE)
CPX(s) == Compare(s, s.x, FALSE)
CPY(s) == Compare(s, s.y, FALSE)

\* the body shared by DEC (d = -1) and INC (d = 1)
MemStep(s, d) ==
    Let(fetch(s), LAMBDA s1 :
    Let(uint16(s1.fetched) + d, LAMBDA temp :
    Let(Olc6502_write(s1, s1.addr_abs, BitAnd(temp, 255)), LAMBDA s2 :
    Let(Then(s2, LAMBDA t : set_flag(t, "Z", BitAnd(temp, 255) = 0)), LAMBDA s3 :
    Let(Then(s3, LAMBDA t : set_flag(t, "N", BitAnd(temp, 128) # 0)), LAMBDA s4 :
    Then(s4, LAMBDA t : [t EXCEPT !.rv = FALSE]))))))

DEC(s) == MemStep(s, -1)

DEX(s) ==
    Let([s EXCEPT !.x = @ - 1, !.dtype.x = "int64"], LAMBDA s1 :
    Let(set_flag(s1, "Z", s1.x = 0), LAMBDA s2 :
    Let(set_flag(s2, "N", BitAnd(s2.x, 128) # 0), LAMBDA s3 :
    [s3 EXCEPT !.rv = FALSE])))

DEY(s) ==
    Let([s EXCEPT !.y = @ - 1, !.dtype.y = "int64"], LAMBDA s1 :
    Let(set_flag(s1, "Z", s1.y = 0), LAMBDA s2 :
    Let(set_flag(s2, "N", BitAnd(s2.y, 128) # 0), LAMBDA s3 :
    [s3 EXCEPT !.rv = FALSE])))

EOR(s) ==
    Let(fetch(s), LAMBDA s1 :
    Let([s1 EXCEPT !.a = BitXor(@, s1.fetched),
                         !.dtype.a = Promote(@, "uint8")], LAMBDA s2 :
    Let(set_flag(s2, "Z", s2.a = 0), LAMBDA s3 :
    Let(set_flag(s3, "N", BitAnd(s3.a, 128) # 0), LAMBDA s4 :
    [s4 EXCEPT !.rv = TRUE]))))

INC(s) == MemStep(s, 1)

INX(s) ==
    Let([s EXCEPT !.x = @ + 1, !.dtype.x = "int64"], LAMBDA s1 :
    Let(set_flag(s1, "Z", s1.x = 0), LAMBDA s2 :
    Let(set_flag(s2, "N", BitAnd(s2.x, uint8(128)) # 0), LAMBDA s3 :
    [s3 EXCEPT !.rv = FALSE])))

INY(s) ==
    Let([s EXCEPT !.y = @ + 1, !.dtype.y = "int64"], LAMBDA s1 :
    Let(set_flag(s1, "Z", s1.y = 0), LAMBDA s2 :
    Let(set_flag(s2, "N", BitAnd(s2.y, uint8(128)) # 0), LAMBDA s3 :
    [s3 EXCEPT !.rv = FALSE])))

JMP(s) == [s EXCEPT !.pc = s.addr_abs, !.dtype.pc = s.dtype.addr_abs, !.rv = FALSE]

JSR(s) ==
    Let([s EXCEPT !.pc = @ - 1, !.dtype.pc = "int64"], LAMBDA s1 :
    Let(Olc6502_write(s1, 256 + s1.stkp, BitAnd(Shr(s1.pc, 8), 255)), LAMBDA s2 :
    Let(Then(s2, DecStkp), LAMBDA s3 :
    Let(Then(s3, LAMBDA t : Olc6502_write(t, 256 + t.stkp, BitAnd(t.pc, 255))), LAMBDA s4 :
    Let(Then(s4, DecStkp), LAMBDA s5 :
    Then(s5, LAMBDA t : [t EXCEPT !.pc = t.addr_abs,
                                      !.dtype.pc = t.dtype.addr_abs, !.rv = FALSE]))))))

LDA(s) ==
    Let(fetch(s), LAMBDA s1 :
    Let([s1 EXCEPT !.a = s1.fetched, !.dtype.a = "uint8"], LAMBDA s2 :
    Let(set_flag(s2, "Z", s2.a = 0), LAMBDA s3 :
    Let(set_flag(s3, "N", BitAnd(s3.a, uint8(128)) # 0), LAMBDA s4 :
    [s4 EXCEPT !.rv = TRUE]))))

LDX(s) ==
    Let(fetch(s), LAMBDA s1 :
    Let([s1 EXCEPT !.x = s1.fetched, !.dtype.x = "uint8"], LAMBDA s2 :
    Let(set_flag(s2, "Z", s2.x = 0), LAMBDA s3 :
    Let(set_flag(s3, "N", BitAnd(s3.x, uint8(128)) # 0), LAMBDA s4 :
    [s4 EXCEPT !.rv = TRUE]))))

LDY(s) ==
    Let(fetch(s), LAMBDA s1 :
    Let([s1 EXCEPT !.y = s1.fetched, !.dtype.y = "uint8"], LAMBDA s2 :
    Let(set_flag(s2, "Z", s2.y = 0), LAMBDA s3 :
    Let(set_flag(s3, "N", BitAnd(s3.y, uint8(128)) # 0), LAMBDA s4 :
    [s4 EXCEPT !.rv = TRUE]))))

LSR(s) ==
    Let(fetch(s), LAMBDA s1 :
    Let(uint16(s1.fetched), LAMBDA f :
    Let(set_flag(s1, "C", BitAnd(f, 1) # 0), LAMBDA s2 :
    Let(Shr(uint16(f), 1), LAMBDA temp :
    Let(set_flag(s2, "Z", BitAnd(temp, 255) = 0), LAMBDA s3 :
    Let(set_flag(s3, "N", BitAnd(temp, 128) # 0), LAMBDA s4 :
    ShiftStore(s4, temp)))))))

NOP(s) == [s EXCEPT !.rv = (s.opcode \in {28, 60, 92, 124, 220, 252})]

ORA(s) ==
    Let(fetch(s), LAMBDA s1 :
    Let([s1 EXCEPT !.a = BitOr(@, s1.fetched),
                         !.dtype.a = Promote(@, "uint8")], LAMBDA s2 :
    Let(set_flag(s2, "Z", s2.a = 0), LAMBDA s3 :
    Let(set_flag(s3, "N", BitAnd(s3.a, uint8(128)) # 0), LAMBDA s4 :
    [s4 EXCEPT !.rv = TRUE]))))

PHA(s) ==
    Let(Olc6502_write(s, 256 + s.stkp, s.a), LAMBDA s1 :
    Let(Then(s1, DecStkp), LAMBDA s2 :
    Then(s2, LAMBDA t : [t EXCEPT !.rv = FALSE])))

PHP(s) ==
    Let(Olc6502_write(s, 256 + s.stkp,
                            uint8(BitOr(BitOr(s.status, FlagValue("B")), FlagValue("U")))), LAMBDA s1 :
    Let(Then(s1, LAMBDA t : set_flag(t, "B", FALSE)), LAMBDA s2 :
    Let(Then(s2, LAMBDA t : set_flag(t, "U", FALSE)), LAMBDA s3 :
    Let(Then(s3, DecStkp), LAMBDA s4 :
    Then(s4, LAMBDA t : [t EXCEPT !.rv = FALSE])))))

PLA(s) ==
    Let(IncStkp(s), LAMBDA s1 :
    Let([s1 EXCEPT !.a = Olc6502_read(s1, 256 + s1.stkp), !.dtype.a = "uint8"], LAMBDA s2 :
    Let(set_flag(s2, "Z", s2.a = 0), LAMBDA s3 :
    Let(set_flag(s3, "N", BitAnd(s3.a, uint8(128)) # 0), LAMBDA s4 :
    [s4 EXCEPT !.rv = FALSE]))))

\* a PLP that reads the stack before it advances the stack pointer
PLP_mut_readfirst(s) ==
    Let([s EXCEPT !.status = Olc6502_read(s, 256 + s.stkp)], LAMBDA s1 :
    Let(IncStkp(s1), LAMBDA s2 :
    Let(set_flag(s2, "U", TRUE), LAMBDA s3 :
    [s3 EXCEPT !.rv = FALSE])))

PLP(s) ==
    Let(IncStkp(s), LAMBDA s1 :
    Let([s1 EXCEPT !.status = Olc6502_read(s1, 256 + s1.stkp)], LAMBDA s2 :
    Let(set_flag(s2, "U", TRUE), LAMBDA s3 :
    [s3 EXCEPT !.rv = FALSE])))

ROL(s) ==
    Let(fetch(s), LAMBDA s1 :
    Let(uint16(s1.fetched), LAMBDA f :
    Let(BitOr(uint16(Shl(f, 1)), uint16(get_flag(s1, "C"))), LAMBDA temp :
    Let(set_flag(s1, "C", BitAnd(temp, 65280) # 0), LAMBDA s2 :
    Let(set_flag(s2, "Z", BitAnd(temp, 255) = 0), LAMBDA s3 :
    Let(set_flag(s3, "N", BitAnd(temp, 128) # 0), LAMBDA s4 :
    ShiftStore(s4, temp)))))))

\* a rotate right that shifts a zero into bit 7
ROR_mut_nocarry(s) ==
    Let(fetch(s), LAMBDA s1 :
    Let(s1.fetched, LAMBDA f :
    Let(uint16(Shr(uint16(f), 1)), LAMBDA temp :
    Let(set_flag(s1, "C", BitAnd(f, 1) # 0), LAMBDA s2 :
    Let(set_flag(s2, "Z", BitAnd(temp, 255) = 0), LAMBDA s3 :
    Let(set_flag(s3, "N", BitAnd(temp, 128) # 0), LAMBDA s4 :
    ShiftStore(s4, temp)))))))

ROR(s) ==
    Let(fetch(s), LAMBDA s1 :
    Let(s1.fetched, LAMBDA f :
    Let(BitOr(uint16(Shr(uint16(f), 1)),
                      uint16(Shl(uint16(get_flag(s1, "C")), 7))), LAMBDA temp :
    Let(set_flag(s1, "C", BitAnd(f, 1) # 0), LAMBDA s2 :
    Let(set_flag(s2, "Z", BitAnd(temp, 255) = 0), LAMBDA s3 :
    Let(set_flag(s3, "N", BitAnd(temp, 128) # 0), LAMBDA s4 :
    ShiftStore(s4, temp)))))))

RTS(s) ==
    Let(IncStkp(s), LAMBDA s1 :
    Let([s1 EXCEPT !.pc = uint16(Olc6502_read(s1, 256 + s1.stkp)),
                         !.dtype.pc = "uint16"], LAMBDA s2 :
    Let(IncStkp(s2), LAMBDA s3 :
    Let([s3 EXCEPT !.pc = uint16(Shl(uint16(Olc6502_read(s3, 256 + s3.stkp)), 8)),
                         !.dtype.pc = "uint16"], LAMBDA s4 :
    [s4 EXCEPT !.rv = FALSE]))))

SEC(s) == [set_flag(s, "C", TRUE) EXCEPT !.rv = FALSE]
SED(s) == [set_flag(s, "D", TRUE) EXCEPT !.rv = FALSE]
SEI(s) == [set_flag(s, "I", TRUE) EXCEPT !.rv = FALSE]

STA(s) == Then(Olc6502_write(s, s.addr_abs, s.a), LAMBDA t : [t EXCEPT !.rv = FALSE])
STX(s) == Then(Olc6502_write(s, s.addr_abs, s.x), LAMBDA t : [t EXCEPT !.rv = FALSE])
STY(s) == Then(Olc6502_write(s, s.addr_abs, s.y), LAMBDA t : [t EXCEPT !.rv = FALSE])

\* the body shared by TAX, TAY, TSX, TXA, TYA: register to <- register from
Transfer(s, to, from, fromtype) ==
    Let([s EXCEPT ![to] = from, !.dtype[to] = fromtype], LAMBDA s1 :
    Let(set_flag(s1, "Z", s1[to] = 0), LAMBDA s2 :
    Let(set_flag(s2, "N", BitAnd(s2[to], uint8(128)) # 0), LAMBDA s3 :
    [s3 EXCEPT !.rv = FALSE])))

TAX(s) == Transfer(s, "x", s.a, s.dtype.a)
TAY(s) == Transfer(s, "y", s.a, s.dtype.a)
TSX(s) == Transfer(s, "x", s.stkp, s.dtype.stkp)
TXA(s) == Transfer(s, "a", s.x, s.dtype.x)

TXS(s) == [s EXCEPT !.stkp = s.x, !.dtype.stkp = s.dtype.x, !.rv = FALSE]

TYA(s) == Transfer(s, "a", s.y, s.dtype.y)

RTI(s) ==
    Let(IncStkp(s), LAMBDA s1 :
    Let([s1 EXCEPT !.status = Olc6502_read(s1, 256 + s1.stkp)], LAMBDA s2 :
    Let([s2 EXCEPT !.status = BitAnd(@, uint8(BitNot(FlagValue("B"))))], LAMBDA s3 :
    Let([s3 EXCEPT !.status = BitAnd(@, uint8(BitNot(FlagValue("U"))))], LAMBDA s4 :
    Let(IncStkp(s4), LAMBDA s5 :
    Let([s5 EXCEPT !.pc = uint16(Olc6502_read(s5, 256 + s5.stkp)),
                         !.dtype.pc = "uint16"], LAMBDA s6 :
    Let(IncStkp(s6), LAMBDA s7 :
    Let(Olc6502_read(s7, 256 + s7.stkp), LAMBDA hi :
    [s7 EXCEPT !.pc = BitOr(@, uint16(Shl(uint16(hi), 8))), !.rv = FALSE]))))))))

\* the methods InstructionSelector defines
Handlers ==
    {"ADC", "SBC", "AND", "ASL", "BCC", "BCS", "BEQ", "BIT", "BMI", "BNE",
     "BPL", "BRK", "CLC", "CLD", "CLI", "CLV", "CMP", "CPX", "CPY", "DEC",
     "DEX", "DEY", "EOR", "INC", "INX", "INY", "JMP", "JSR", "LDA", "LDX",
     "LDY", "LSR", "NOP", "ORA", "PHA", "PHP", "PLA", "PLP", "ROL", "ROR",
     "RTS", "SEC", "SED", "SEI", "STA", "STX", "STY", "TAX", "TAY", "TSX",
     "TXA", "TXS", "TYA", "RTI"}

\* getattr(self, Opcodes(opcode).name)()
Handler(s, m) ==
    CASE m = "ADC" -> ADC(s) [] m = "SBC" -> SBC(s) [] m = "AND" -> AND(s)
      [] m = "ASL" -> ASL(s) [] m = "BCC" -> BCC(s) [] m = "BCS" -> BCS(s)
      [] m = "BEQ" -> BEQ(s) [] m = "BIT" -> BIT(s) [] m = "BMI" -> BMI(s)
      [] m = "BNE" -> BNE(s) [] m = "BPL" -> BPL(s) [] m = "BRK" -> BRK(s)
      [] m = "CLC" -> CLC(s) [] m = "CLD" -> CLD(s) [] m = "CLI" -> CLI(s)
      [] m = "CLV" -> CLV(s) [] m = "CMP" -> CMP(s) [] m = "CPX" -> CPX(s)
      [] m = "CPY" -> CPY(s) [] m = "DEC" -> DEC(s) [] m = "DEX" -> DEX(s)
      [] m = "DEY" -> DEY(s) [] m = "EOR" -> EOR(s) [] m = "INC" -> INC(s)
      [] m = "INX" -> INX(s) [] m = "INY" -> INY(s) [] m = "JMP" -> JMP(s)
      [] m = "JSR" -> JSR(s) [] m = "LDA" -> LDA(s) [] m = "LDX" -> LDX(s)
      [] m = "LDY" -> LDY(s) [] m = "LSR" -> LSR(s) [] m = "NOP" -> NOP(s)
      [] m = "ORA" -> ORA(s) [] m = "PHA" -> PHA(s) [] m = "PHP" -> PHP(s)
      [] m = "PLA" -> PLA(s) [] m = "PLP" -> PLP(s) [] m = "ROL" -> ROL(s)
      [] m = "ROR" -> ROR(s) [] m = "RTS" -> RTS(s) [] m = "SEC" -> SEC(s)
      [] m = "SED" -> SED(s) [] m = "SEI" -> SEI(s) [] m = "STA" -> STA(s)
      [] m = "STX" -> STX(s) [] m = "STY" -> STY(s) [] m = "TAX" -> TAX(s)
      [] m = "TAY" -> TAY(s) [] m = "TSX" -> TSX(s) [] m = "TXA" -> TXA(s)
      [] m = "TXS" -> TXS(s) [] m = "TYA" -> TYA(s) [] m = "RTI" -> RTI(s)

\* a select that runs the JAM sentinel as a BRK
InstructionSelector_select_mut_jambrk(s, m) ==
    IF m = "JAM"
    THEN BRK(s)
    ELSE IF m \notin Handlers
    THEN [s EXCEPT !.err = "AttributeError"]
    ELSE Handler(s, m)

\* a select that runs the JAM sentinel as a NOP
InstructionSelector_select_mut_jamnop(s, m) ==
    IF m = "JAM"
    THEN NOP(s)
    ELSE IF m \notin Handlers
    THEN [s EXCEPT !.err = "AttributeError"]
    ELSE Handler(s, m)

\* InstructionSelector.select
InstructionSelector_select(s, m) ==
    IF m = "JAM"
    THEN [s EXCEPT !.err = "ValueError"]
    ELSE IF m \notin Handlers
    THEN [s EXCEPT !.err = "AttributeError"]
    ELSE Handler(s, m)

-----------------------------------------------------------------------------
(* CPU engine (nes/olc6502.py).                                            *)

\* a dispatch that does not set the Unused flag again after the instruction
Dispatch_mut_nofinalU(s) ==
    Let(set_flag(s, "U", TRUE), LAMBDA s1 :
    Let([s1 EXCEPT !.opcode = Olc6502_read(s1, s1.pc), !.ndisp = @ + 1], LAMBDA s2 :
    Let(IncPc(s2), LAMBDA s3 :
    Let(Lookup(s3.opcode), LAMBDA instruction :
    Let([s3 EXCEPT !.cycles = instruction.cycles], LAMBDA s4 :
    Let(AddressModeSelector_select(s4, instruction.addr_mode), LAMBDA s5 :
    Let(InstructionSelector_select(s5, instruction.opcode), LAMBDA s6 :
    Let(Then(s6, LAMBDA t : IF s5.rv /\ t.rv
                                  THEN [t EXCEPT !.cycles = @ + 1]
                                  ELSE t), LAMBDA s7 :
    Then(s7, LAMBDA t : [t EXCEPT !.cost = t.cycles])))))))))

\* the body of "if self.cycles == 0" in Olc6502.clock
Dispatch(s) ==
    Let(set_flag(s, "U", TRUE), LAMBDA s1 :
    Let([s1 EXCEPT !.opcode = Olc6502_read(s1, s1.pc), !.ndisp = @ + 1], LAMBDA s2 :
    Let(IncPc(s2), LAMBDA s3 :
    Let(Lookup(s3.opcode), LAMBDA instruction :
    Let([s3 EXCEPT !.cycles = instruction.cycles], LAMBDA s4 :
    Let(AddressModeSelector_select(s4, instruction.addr_mode), LAMBDA s5 :
    Let(InstructionSelector_select(s5, instruction.opcode), LAMBDA s6 :
    Let(Then(s6, LAMBDA t : IF s5.rv /\ t.rv
                                  THEN [t EXCEPT !.cycles = @ + 1]
                                  ELSE t), LAMBDA s7 :
    Then(s7, LAMBDA t : [set_flag(t, "U", TRUE) EXCEPT !.cost = t.cycles])))))))))

\* a clock that decrements only on the calls that do not dispatch
clock_mut_nodec(s) ==
    IF s.cycles = 0
    THEN Dispatch(s)
    ELSE [s EXCEPT !.cycles = @ - 1]

\* a clock that dispatches one call early
clock_mut_early(s) ==
    Let(IF s.cycles <= 1 THEN Dispatch(s) ELSE s, LAMBDA s1 :
    Then(s1, LAMBDA t : [t EXCEPT !.cycles = @ - 1]))

\* a clock that never dispatches and only decrements
clock_mut_nodispatch(s) ==
    Let(s, LAMBDA s1 :
    Then(s1, LAMBDA t : [t EXCEPT !.cycles = @ - 1]))

\* Olc6502.clock
clock(s) ==
    Let(IF s.cycles = 0 THEN Dispatch(s) ELSE s, LAMBDA s1 :
    Then(s1, LAMBDA t : [t EXCEPT !.cycles = @ - 1]))

\* a reset that reads the vector high byte first
reset_mut_swap(s) ==
    Let(Olc6502_read(s, 65533), LAMBDA lo :
    Let(Olc6502_read(s, 65532), LAMBDA hi :
    [s EXCEPT !.pc = uint16(BitOr(uint16(Shl(uint16(hi), 8)), uint16(lo))),
              !.a = 0, !.x = 0, !.y = 0, !.stkp = 253, !.status = 32,
              !.dtype = [a |-> "uint8", x |-> "uint8", y |-> "uint8",
                         stkp |-> "uint8", pc |-> "uint16",
                         addr_abs |-> "uint16"],
              !.addr_rel = 0, !.addr_abs = 0, !.fetched = 0, !.cycles = 8]))

\* Olc6502.reset
reset(s) ==
    Let([s EXCEPT !.addr_abs = uint16(65532), !.dtype.addr_abs = "uint16"], LAMBDA s1 :
    Let(Olc6502_read(s1, s1.addr_abs), LAMBDA lo :
    Let(Olc6502_read(s1, s1.addr_abs + 1), LAMBDA hi :
    [s1 EXCEPT !.pc = uint16(BitOr(uint16(Shl(uint16(hi), 8)), uint16(lo))),
                   !.a = uint8(0), !.x = uint8(0), !.y = uint8(0),
                   !.stkp = uint8(253),
                   !.status = uint8(BitOr(0, FlagValue("U"))),
                   !.dtype = [a |-> "uint8", x |-> "uint8", y |-> "uint8",
                              stkp |-> "uint8", pc |-> "uint16",
                              addr_abs |-> "uint16"],
                   !.addr_rel = uint16(0),
                   !.addr_abs = uint16(0),
                   !.fetched = uint8(0),
                   !.cycles = uint8(8)])))

\* an interrupt sequence that pushes the low byte of pc before the high byte
Interrupt_mut_lofirst(s, vector, ncycles) ==
    Let(Olc6502_write(s, 256 + s.stkp, uint8(BitAnd(uint16(s.pc), 255))), LAMBDA s1 :
    Let(Then(s1, DecStkp), LAMBDA s2 :
    Let(Then(s2, LAMBDA t :
            Olc6502_write(t, 256 + t.stkp, uint8(BitAnd(uint16(Shr(t.pc, 8)), 255)))), LAMBDA s3 :
    Let(Then(s3, DecStkp), LAMBDA s4 :
    Let(Then(s4, LAMBDA t : set_flag(t, "B", FALSE)), LAMBDA s5 :
    Let(Then(s5, LAMBDA t : set_flag(t, "U", TRUE)), LAMBDA s6 :
    Let(Then(s6, LAMBDA t : set_flag(t, "I", TRUE)), LAMBDA s7 :
    Let(Then(s7, LAMBDA t : Olc6502_write(t, 256 + t.stkp, t.status)), LAMBDA s8 :
    Let(Then(s8, DecStkp), LAMBDA s9 :
    Then(s9, LAMBDA t :
        Let([t EXCEPT !.addr_abs = uint16(vector),
                      !.dtype.addr_abs = "uint16"], LAMBDA t1 :
        Let(Olc6502_read(t1, t1.addr_abs), LAMBDA lo :
        Let(Olc6502_read(t1, t1.addr_abs + 1), LAMBDA hi :
        [t1 EXCEPT !.pc = uint16(BitOr(uint16(Shl(uint16(hi), 8)), uint16(lo))),
                   !.dtype.pc = "uint16",
                   !.cycles = uint8(ncycles)])))))))))))))

\* the body shared by irq (vector 0xFFFE, 7 cycles) and nmi (0xFFFA, 8)
Interrupt(s, vector, ncycles) ==
    Let(Olc6502_write(s, 256 + s.stkp, uint8(BitAnd(uint16(Shr(s.pc, 8)), 255))), LAMBDA s1 :
    Let(Then(s1, DecStkp), LAMBDA s2 :
    Let(Then(s2, LAMBDA t :
            Olc6502_write(t, 256 + t.stkp, uint8(BitAnd(uint16(t.pc), 255)))), LAMBDA s3 :
    Let(Then(s3, DecStkp), LAMBDA s4 :
    Let(Then(s4, LAMBDA t : set_flag(t, "B", FALSE)), LAMBDA s5 :
    Let(Then(s5, LAMBDA t : set_flag(t, "U", TRUE)), LAMBDA s6 :
    Let(Then(s6, LAMBDA t : set_flag(t, "I", TRUE)), LAMBDA s7 :
    Let(Then(s7, LAMBDA t : Olc6502_write(t, 256 + t.stkp, t.status)), LAMBDA s8 :
    Let(Then(s8, DecStkp), LAMBDA s9 :
    Then(s9, LAMBDA t :
        Let([t EXCEPT !.addr_abs = uint16(vector),
                      !.dtype.addr_abs = "uint16"], LAMBDA t1 :
        Let(Olc6502_read(t1, t1.addr_abs), LAMBDA lo :
        Let(Olc6502_read(t1, t1.addr_abs + 1), LAMBDA hi :
        [t1 EXCEPT !.pc = uint16(BitOr(uint16(Shl(uint16(hi), 8)), uint16(lo))),
                   !.dtype.pc = "uint16",
                   !.cycles = uint8(ncycles)])))))))))))))

\* an irq without the InterruptDisable test
irq_mut_always(s) == Interrupt(s, 65534, 7)

\* Olc6502.irq
irq(s) == IF get_flag(s, "I") = 0 THEN Interrupt(s, 65534, 7) ELSE s

\* Olc6502.nmi
nmi(s) == Interrupt(s, 65530, 8)

-----------------------------------------------------------------------------
(* Construction: Bus() and Olc6502(bus) (nes/cpu.py, Cpu.__init__), and    *)
(* HexdumpViewer(screen, ...) (simulator.py), whose hex-dump model starts  *)
(* with the eight all-zero rows 0x0000..0x0070 and nothing rendered.       *)

Init ==
    /\ ram = ZeroRam
    /\ a = 0 /\ x = 0 /\ y = 0 /\ stkp = 0 /\ pc = 0 /\ status = 0
    /\ dtype = [a |-> "uint8", x |-> "uint8", y |-> "uint8", stkp |-> "uint8",
                pc |-> "uint16", addr_abs |-> "uint16"]
    /\ addr_abs = 0 /\ addr_rel = 0 /\ opcode = 0 /\ cycles = 0 /\ fetched = 0
    /\ op = "init" /\ arg = << >> /\ ret = << >> /\ err = "none"
    /\ ncalls = 0 /\ ndisp = 0 /\ cost = 0 /\ since = 0
    /\ hex_dump = [k \in {16 * n : n \in 0..7} |-> [i \in 1..16 |-> 0]]
    /\ hex_lines = {}

-----------------------------------------------------------------------------
(* Driver calls on the bus and on the CPU's memory interface               *)
(* (tests/test_bus.py, test_olc6502.py).  An exception ends the run: no    *)
(* driver of the repository catches one.                                   *)

\* addresses and bytes the drivers pass
BusAddrs == {-1, 0, 4660, 65535, 65536, 1048575}
BusData == {0, 85, 171, 255}

BusWriteCall(addr, data) ==
    /\ err = "none"
    /\ \E w \in {Bus_write(ram, addr, data)} : ram' = w.ram /\ err' = w.err
    /\ op' = "Bus.write" /\ arg' = <<addr, data>> /\ ret' = << >>
    /\ UNCHANGED <<cpuvars, ghostvars, ncalls>>
    /\ UNCHANGED viewvars

BusReadCall(addr) ==
    /\ err = "none"
    /\ op' = "Bus.read" /\ arg' = <<addr>> /\ ret' = <<Bus_read(ram, addr)>>
    /\ UNCHANGED <<ram, err, cpuvars, ghostvars, ncalls>>
    /\ UNCHANGED viewvars

CpuWriteCall(addr, data) ==
    /\ err = "none"
    /\ \E s \in {Olc6502_write(Cur, addr, data)} : Install(s) /\ err' = s.err
    /\ op' = "Olc6502.write" /\ arg' = <<addr, data>> /\ ret' = << >>
    /\ UNCHANGED <<ghostvars, ncalls>>
    /\ UNCHANGED viewvars

CpuReadCall(addr) ==
    /\ err = "none"
    /\ op' = "Olc6502.read" /\ arg' = <<addr>> /\ ret' = <<Olc6502_read(Cur, addr)>>
    /\ UNCHANGED <<ram, err, cpuvars, ghostvars, ncalls>>
    /\ UNCHANGED viewvars

NextBus ==
    \/ \E addr \in BusAddrs, data \in BusData : BusWriteCall(addr, data)
    \/ \E addr \in BusAddrs : BusReadCall(addr)
    \/ \E addr \in BusAddrs, data \in BusData : CpuWriteCall(addr, data)
    \/ \E addr \in BusAddrs : CpuReadCall(addr)

SpecBus == Init /\ [][NextBus]_vars

-----------------------------------------------------------------------------
(* Driver calls on the register file's flag accessors                      *)
(* (tests/test_register.py, tests/test_instruction_selector.py).           *)

SetFlagCall(f, value) ==
    /\ err = "none"
    /\ status' = Register_set_flag(status, f, value)
    /\ op' = "set_flag" /\ arg' = <<f, value>> /\ ret' = << >>
    /\ UNCHANGED <<ram, a, x, y, stkp, pc, dtype, addr_abs, addr_rel, opcode,
                   cycles, fetched, err, ghostvars, ncalls>>
    /\ UNCHANGED viewvars

GetFlagCall(f) ==
    /\ err = "none"
    /\ op' = "get_flag" /\ arg' = <<f>> /\ ret' = <<Register_get_flag(status, f)>>
    /\ UNCHANGED <<ram, err, cpuvars, ghostvars, ncalls>>
    /\ UNCHANGED viewvars

NextFlags ==
    \/ \E f \in Flags, value \in BOOLEAN : SetFlagCall(f, value)
    \/ \E f \in Flags : GetFlagCall(f)

SpecFlags == Init /\ [][NextFlags]_vars

-----------------------------------------------------------------------------
(* The stepper (main.py): load a program at 0x8000, store the reset        *)
(* vector, reset(), then clock() repeatedly.  irq() and nmi() are the      *)
(* engine's other entry points; a driver may call them, and reset(),       *)
(* between any two clock() calls.                                          *)

\* opcode fetches per run
MaxDispatch == 2

\* reset/irq/nmi calls per run
MaxCalls == 2

\* direct InstructionSelector.select calls per run
MaxSelect == 2

\* the offset main.py loads the program at
ProgramBase == 32768

\* Bus.load_to_ram on the bytes of the file: the new ram, and the exception
RECURSIVE load_to_ram(_, _, _)
load_to_ram(r, ram_offset, data) ==
    IF data = << >>
    THEN [ram |-> r, err |-> "none"]
    ELSE IF ram_offset < -65536 \/ ram_offset > 65535
    THEN [ram |-> r, err |-> "IndexError"]
    ELSE load_to_ram(Store(r, ram_offset % 65536, Head(data)),
                     ram_offset + 1, Tail(data))

\* the program files and vectors the stepper is run with: the opcode under
\* test first (entry at 0x8000) or behind a NOP (entry at 0x8001)
Program(opc, v) ==
    IF v = 1 THEN <<opc, 5, 128, 234>> ELSE <<234, opc, 254, 255>>

ResetVector(v) == IF v = 1 THEN ProgramBase ELSE ProgramBase + 1

\* every opcode is run in the first form; one opcode of each addressing
\* mode, the stack users, BVC and a JAM also in the second
SampleOpcodes ==
    {0, 2, 10, 32, 72, 80, 108, 144, 161, 165, 169, 173, 177, 181, 182, 185, 189}

Images ==
    {<<opc, 1>> : opc \in 0..255} \cup {<<opc, 2>> : opc \in SampleOpcodes}

\* ram[addr] = lo, ram[addr + 1] = hi
StoreVector(r, addr, target) ==
    Store(Store(r, addr, target % 256), addr + 1, target \div 256)

\* main.py lines 19-23, with the interrupt vectors stored as well
Load(opc, v) ==
    /\ op = "init"
    /\ \E l \in {load_to_ram(ram, ProgramBase, Program(opc, v))} :
          /\ ram' = StoreVector(StoreVector(StoreVector(l.ram,
                         65530, ProgramBase + 2),
                         65532, ResetVector(v)),
                         65534, ProgramBase + 3)
          /\ err' = l.err
    /\ op' = "load" /\ arg' = <<opc, v>> /\ ret' = << >>
    /\ UNCHANGED <<cpuvars, ghostvars, ncalls>>
    /\ UNCHANGED viewvars

ClockCall ==
    /\ err = "none"
    /\ cycles # 0 \/ ndisp < MaxDispatch
    /\ \E s \in {clock(Cur)} :
           /\ Install(s)
           /\ err' = s.err
           /\ ndisp' = s.ndisp
           /\ cost' = s.cost
           /\ since' = IF s.ndisp # ndisp THEN 1 ELSE since + 1
    /\ op' = "clock" /\ arg' = << >> /\ ret' = << >>
    /\ UNCHANGED ncalls
    /\ UNCHANGED viewvars

\* a call of reset, irq or nmi: the cycle count it leaves is the cost of
\* the sequence, and no clock() call has been spent on it yet
EntryStep(name, s) ==
    /\ err = "none"
    /\ Install(s)
    /\ err' = s.err
    /\ op' = name /\ arg' = << >> /\ ret' = << >>
    /\ ncalls' = ncalls + 1
    /\ ndisp' = ndisp
    /\ IF name = "irq" /\ get_flag(Cur, "I") # 0
       THEN UNCHANGED <<cost, since>>
       ELSE cost' = s.cycles /\ since' = 0
    /\ UNCHANGED viewvars

\* at most MaxCalls calls of reset, irq and nmi per run
EntryCall(name, s) ==
    /\ ncalls < MaxCalls
    /\ EntryStep(name, s)

ResetCall == \E s \in {reset(Cur)} : EntryCall("reset", s)

IrqCall == \E s \in {irq(Cur)} : EntryCall("irq", s)

NmiCall == \E s \in {nmi(Cur)} : EntryCall("nmi", s)

Next ==
    \/ \E im \in Images : Load(im[1], im[2])
    \/ ClockCall
    \/ ResetCall
    \/ IrqCall
    \/ NmiCall

Spec == Init /\ [][Next]_vars

\* the stepper exactly as main.py runs it: load, reset(), then the loop of
\* clock() and, whenever cycles reads 0 after it, input()
StepperReset == op = "load" /\ ResetCall

\* a stepper that prompts when one cycle is still to be spent
AtPrompt_mut_early == op = "clock" /\ err = "none" /\ cycles = 1

\* main.py line 28 holds after the clock() of line 27: the loop is in input()
AtPrompt == op = "clock" /\ err = "none" /\ cycles = 0

\* main.py line 31: the loop has been left
Quit == op = "input" /\ arg = <<"q">>

\* the lines the user types
Keys == {"", "q", "n"}

StepperClock == ncalls >= 1 /\ ~AtPrompt /\ ~Quit /\ ClockCall

\* key = input("Enter to continue...")
InputCall(key) ==
    /\ AtPrompt
    /\ op' = "input" /\ arg' = <<key>> /\ ret' = <<key>>
    /\ UNCHANGED <<ram, err, cpuvars, ghostvars, ncalls, viewvars>>

NextStepper ==
    \/ \E im \in Images : Load(im[1], im[2])
    \/ StepperReset
    \/ StepperClock
    \/ \E key \in Keys : InputCall(key)

SpecStepper == Init /\ [][NextStepper]_vars

-----------------------------------------------------------------------------
(* Direct calls of the instruction executor                                *)
(* (tests/test_instruction_selector.py).                                   *)

\* selector.select(m), or the handler called by name
SelectStep(m) ==
    /\ err = "none"
    /\ \E s \in {InstructionSelector_select(Cur, m)} :
           /\ Install(s)
           /\ err' = s.err
           /\ ret' = IF s.err = "none" THEN <<s.rv>> ELSE << >>
    /\ op' = "select" /\ arg' = <<m>>
    /\ ncalls' = ncalls + 1
    /\ UNCHANGED ghostvars
    /\ UNCHANGED viewvars

\* at most MaxSelect handler calls per run
SelectCall(m) ==
    /\ err = "none"
    /\ ncalls < MaxSelect
    /\ SelectStep(m)

NextSelect == \E m \in Opcodes : SelectCall(m)

SpecSelect == Init /\ [][NextSelect]_vars

-----------------------------------------------------------------------------
(* Lookups in the decode table.                                            *)

LookupCall(opc) ==
    /\ err = "none"
    /\ op' = "lookup" /\ arg' = <<opc>> /\ ret' = <<Lookup(opc)>>
    /\ UNCHANGED <<ram, err, cpuvars, ghostvars, ncalls>>
    /\ UNCHANGED viewvars

NextDecode == \E opc \in 0..255 : LookupCall(opc)

SpecDecode == Init /\ [][NextDecode]_vars

-----------------------------------------------------------------------------
(* The loader called on a freshly constructed bus (main.py line 20,        *)
(* simulator.py line 233), with files of up to MaxFile bytes.              *)

\* bytes per file
MaxFile == 3

\* bus.load_to_ram(ram_offset, file): the method has no return statement,
\* so the call evaluates to None
LoadToRamCall(ram_offset, file) ==
    /\ op = "init"
    /\ \E l \in {load_to_ram(ram, ram_offset, file)} :
          /\ ram' = l.ram
          /\ err' = l.err
    /\ op' = "load_to_ram" /\ arg' = <<ram_offset, file>> /\ ret' = << >>
    /\ UNCHANGED <<cpuvars, ghostvars, ncalls>>
    /\ UNCHANGED viewvars

\* every file of at most MaxFile bytes drawn from 0x00, 0x07, 0xFF, at
\* offsets 0, 0x1234, 0x8000 and 0xFFFE
NextLoad ==
    \E ram_offset \in {0, 4660, ProgramBase, 65534},
       file \in UNION {[1..n -> {0, 7, 255}] : n \in 0..MaxFile} :
        LoadToRamCall(ram_offset, file)

SpecLoad == Init /\ [][NextLoad]_vars

-----------------------------------------------------------------------------
(* A handler called on an arranged CPU, the way the unit tests do it       *)
(* (tests/test_instruction_selector.py, tests/test_register.py): the       *)
(* driver assigns the fields it needs on the constructed objects, then     *)
(* calls the handler.  The constructed CPU has opcode = 0, whose table     *)
(* entry is not Implied, and addr_abs = 0, so fetch() reads ram[0].        *)

\* cpu.register.a = uint8(av); cpu.bus.ram[0] = m; cpu.set_flag(Flags.C, c)
ArrangeCall(av, m, c) ==
    /\ op = "init"
    /\ a' = uint8(av)
    /\ dtype' = [dtype EXCEPT !.a = "uint8"]
    /\ ram' = Store(ram, 0, m)
    /\ status' = Register_set_flag(status, "C", c)
    /\ op' = "arrange" /\ arg' = <<av, m, c>> /\ ret' = << >>
    /\ UNCHANGED <<x, y, stkp, pc, addr_abs, addr_rel, opcode, cycles, fetched,
                   err, ghostvars, ncalls>>
    /\ UNCHANGED viewvars

\* ADC and SBC on every accumulator, operand and carry; ROL and then ROR on
\* every operand and carry (they do not read the accumulator)
NextAlu ==
    \/ op = "init" /\ \E av \in 0..255, m \in 0..255, c \in BOOLEAN :
                          ArrangeCall(av, m, c)
    \/ op = "arrange" /\ SelectCall("ADC")
    \/ op = "arrange" /\ SelectCall("SBC")
    \/ op = "arrange" /\ a = 0 /\ SelectCall("ROL")
    \/ op = "select" /\ arg = <<"ROL">> /\ SelectCall("ROR")

SpecAlu == Init /\ [][NextAlu]_vars

-----------------------------------------------------------------------------
(* The stepper run on short machine-code programs: the file is loaded at   *)
(* an offset, the reset vector is pointed at its first byte, then          *)
(* reset() and clock() as in main.py.                                      *)

\* opcode fetches per program run
MaxSteps == 3

\* the programs, as <<offset, file>>:
\*  - LDA $o+7; LDX $o+8; ASL A; with data bytes v and w behind the code
\*  - a flag set-up (CLC, SEC, LDA of a zero byte, LDA of the byte 0x80 that
\*    ends the LDA itself) and then each branch opcode, with displacements
\*    +16, -2 and -128, low in a page and 16 bytes below a page end
\*  - JSR $o+5; NOP; NOP; RTS
\*  - NOP in the last byte of the address space
\*  - TXS; PHA (after reset() x = 0) and PLA; PLA; PLA
Roms ==
    {<<ProgramBase, <<173, 7, 128, 174, 8, 128, 10, v, w>>>> :
        v \in {0, 1, 64, 129, 255}, w \in {0, 1, 64, 129, 255}}
    \cup UNION {
         {<<o, prep \o <<b, rel>>>> :
             prep \in {<<24>>, <<56>>, <<173, 0, 0>>, <<173, (o + 2) % 256, o \div 256>>},
             b \in {16, 48, 80, 112, 144, 176, 208, 240},
             rel \in {16, 254, 128}} : o \in {ProgramBase, ProgramBase + 240}}
    \cup {<<o, <<32, (o + 5) % 256, o \div 256, 234, 234, 96>>>> :
             o \in {ProgramBase, ProgramBase + 240}}
    \cup {<<65535, <<234>>>>, <<ProgramBase, <<154, 72>>>>,
          <<ProgramBase, <<104, 104, 104>>>>}

\* programs that load x and y from the bytes v, w behind the code and then
\* run one legal opcode on the operand bytes lo, hi:
\*     LDX $o+9; LDY $o+10; opc lo hi; v; w
\* loaded at 0x8000 and at 0x0000 (there v and w are also the zero-page
\* pointer of operand 9), and DEX / DEY on the reset value 0 of the
\* register followed by an indexed load
IndexedRoms ==
    UNION {
      {<<o, <<174, 9, o \div 256, 172, 10, o \div 256, opc, lo, o \div 256, vw[1], vw[2]>>>> :
          opc \in {i \in 0..255 : Lookup(i).opcode # "JAM"},
          lo \in {0, 9, 255},
          vw \in {<<0, 0>>, <<1, 255>>, <<255, 1>>, <<255, 255>>}} :
      o \in {0, ProgramBase}}
    \cup {<<ProgramBase, <<202, 189, lo, 128>>>> : lo \in {0, 1}}
    \cup {<<ProgramBase, <<136, 185, lo, 128>>>> : lo \in {0, 1}}

\* main.py lines 19-23 for the file loaded at offset and entered there
LoadRom(offset, file) ==
    /\ op = "init"
    /\ \E l \in {load_to_ram(ram, offset, file)} :
          /\ ram' = StoreVector(l.ram, 65532, offset)
          /\ err' = l.err
    /\ op' = "loadrom" /\ arg' = <<offset, file>> /\ ret' = << >>
    /\ UNCHANGED <<cpuvars, ghostvars, ncalls>>
    /\ UNCHANGED viewvars

\* cpu.clock(), for at most MaxSteps instructions
StepCall ==
    /\ err = "none"
    /\ ncalls >= 1
    /\ cycles # 0 \/ ndisp < MaxSteps
    /\ \E s \in {clock(Cur)} :
           /\ Install(s)
           /\ err' = s.err
           /\ ndisp' = s.ndisp
           /\ cost' = s.cost
           /\ since' = IF s.ndisp # ndisp THEN 1 ELSE since + 1
    /\ op' = "clock" /\ arg' = << >> /\ ret' = << >>
    /\ UNCHANGED ncalls
    /\ UNCHANGED viewvars

NextProg ==
    \/ op = "init" /\ \E rom \in Roms \cup IndexedRoms : LoadRom(rom[1], rom[2])
    \/ op = "loadrom" /\ ResetCall
    \/ StepCall

SpecProg == Init /\ [][NextProg]_vars

-----------------------------------------------------------------------------
(* The flag instructions called on an arranged CPU: the driver assigns a   *)
(* status byte (tests/test_register.py line 24), may run one handler that  *)
(* changes a register or a memory cell, then calls flag instructions.      *)

\* register.status = st
SetStatusCall(st) ==
    /\ op = "init"
    /\ status' = st
    /\ op' = "status" /\ arg' = <<st>> /\ ret' = << >>
    /\ UNCHANGED <<ram, a, x, y, stkp, pc, dtype, addr_abs, addr_rel, opcode,
                   cycles, fetched, err, ghostvars, ncalls>>
    /\ UNCHANGED viewvars

NextFlagOps ==
    \/ op = "init" /\ \E st \in 0..255 : SetStatusCall(st)
    \/ op = "status" /\ \E m \in {"INX", "DEY", "DEC", "PHP", "NOP"} : SelectCall(m)
    \/ op # "init" /\ \E m \in {"CLC", "CLD", "CLI", "CLV", "SEC", "SED", "SEI"} :
                          SelectCall(m)

SpecFlagOps == Init /\ [][NextFlagOps]_vars

-----------------------------------------------------------------------------
(* The hex-dump viewer (simulator.py, HexdumpViewer), constructed with a   *)
(* screen as NesSimulator constructs it, loading an image of up to         *)
(* MaxFile bytes.  The pygame surfaces of hex_lines are not modelled, only *)
(* which rows are rendered; the slider value read by create_hex_dump is    *)
(* the widget library's and is an input of the call.                       *)

\* HexdumpViewer.check_128_byte_chunk on ram[offset : offset + 128]: ram is
\* kept as the map of its non-zero cells
check_128_byte_chunk(r, offset) ==
    \A i \in DOMAIN r : ~(offset <= i /\ i < offset + 128)

\* one element of split_into_16_bytes: the 16 bytes from address k
split_into_16_bytes(r, k) == [i \in 1..16 |-> RamAt(r, k + i - 1)]

\* HexdumpViewer.create_hex_dump: the rows rendered for the slider value
create_hex_dump(hd, value) ==
    {key \in DOMAIN hd : key <= 240 \/ (key >= -value /\ key < -value + 256)}

\* a load_from_file without the "offset += 16" of the inner loop: the eight
\* rows of a chunk are stored under the chunk's address, the last one stays
load_from_file_mut_nostep(hd, ram_offset, file, value) ==
    Let(load_to_ram(ZeroRam, ram_offset, file), LAMBDA l :
    IF l.err # "none"
    THEN [ram |-> l.ram, hex_dump |-> hd, hex_lines |-> {}, err |-> l.err]
    ELSE Let({offset \in {128 * c : c \in 0..511} :
                  ~check_128_byte_chunk(l.ram, offset)}, LAMBDA chunks :
         Let([key \in DOMAIN hd \cup chunks |->
                  IF key \in chunks
                  THEN split_into_16_bytes(l.ram, key + 112)
                  ELSE hd[key]], LAMBDA hd1 :
         [ram |-> l.ram, hex_dump |-> hd1,
          hex_lines |-> create_hex_dump(hd1, value), err |-> "none"])))

\* HexdumpViewer.load_from_file on a viewer whose model is hd: the RAM of
\* the bus it builds, the new model, the rows rendered, the exception (on
\* which nothing has been rendered: the viewer is freshly constructed)
load_from_file(hd, ram_offset, file, value) ==
    Let(load_to_ram(ZeroRam, ram_offset, file), LAMBDA l :
    IF l.err # "none"
    THEN [ram |-> l.ram, hex_dump |-> hd, hex_lines |-> {}, err |-> l.err]
    ELSE Let({<<offset, j>> \in {128 * c : c \in 0..511} \X (0..7) :
                  ~check_128_byte_chunk(l.ram, offset)}, LAMBDA rows :
         Let([key \in DOMAIN hd \cup {rw[1] + 16 * rw[2] : rw \in rows} |->
                  IF \E rw \in rows : key = rw[1] + 16 * rw[2]
                  THEN split_into_16_bytes(l.ram, key)
                  ELSE hd[key]], LAMBDA hd1 :
         [ram |-> l.ram, hex_dump |-> hd1,
          hex_lines |-> create_hex_dump(hd1, value), err |-> "none"])))

\* hex_dumper.load_from_file(ram_offset, file), once, on the constructed
\* viewer; it returns load_to_ram's result, which is None
LoadFromFileCall(ram_offset, file, value) ==
    /\ op = "init"
    /\ \E v \in {load_from_file(hex_dump, ram_offset, file, value)} :
          /\ ram' = v.ram
          /\ hex_dump' = v.hex_dump
          /\ hex_lines' = v.hex_lines
          /\ err' = v.err
    /\ op' = "load_from_file" /\ arg' = <<ram_offset, file>> /\ ret' = << >>
    /\ UNCHANGED <<cpuvars, ghostvars, ncalls>>

\* every file of at most MaxFile bytes drawn from 0x00, 0x07, 0xFF, at
\* offsets 0, 0x7E (across a chunk boundary), 0x8000 and 0xFFFE; the slider
\* at its initial value, at minus the offset of main, and at 0
NextView ==
    \E ram_offset \in {0, 126, ProgramBase, 65534},
       file \in UNION {[1..n -> {0, 7, 255}] : n \in 0..MaxFile},
       value \in {65535, -ProgramBase, 0} :
        LoadFromFileCall(ram_offset, file, value)

SpecView == Init /\ [][NextView]_vars

-----------------------------------------------------------------------------
(* An addressing mode called on an arranged CPU, the way the unit tests    *)
(* arrange state for a handler (tests/test_instruction_selector.py): pc    *)
(* is pointed at 0x8000, the operand bytes are stored there, the index     *)
(* registers are assigned, and every cell a mode could read its pointer    *)
(* from holds a byte that identifies the cell.                             *)

\* the byte arranged in cell c: never 0, different in c and c + 1 and in
\* c and c +- 256
Mark(c) == 1 + (c % 251)

\* the cells the modes could read a pointer from, wrapped or not, for the
\* operand bytes t, h and the index values xv, yv
PointerCells(t, h, xv, yv) ==
    {c \in {(t + xv) % 256, (t + xv + 1) % 256, t + xv, t + xv + 1,
            t, (t + 1) % 256, t + 1,
            256 * h + t, (256 * h + t + 1) % 65536, 256 * h + t + 1, 256 * h}
        : 0 <= c /\ c <= 65535 /\ c \notin {ProgramBase, ProgramBase + 1}}

\* cpu.register.pc = uint16(0x8000); cpu.register.x = xv; cpu.register.y = yv;
\* cpu.bus.ram[0x8000] = t; cpu.bus.ram[0x8001] = h; cpu.bus.ram[c] = Mark(c)
ArrangeModeCall(t, h, xv, yv, rt) ==
    /\ op = "init"
    /\ pc' = uint16(ProgramBase)
    /\ x' = xv /\ y' = yv
    /\ dtype' = [dtype EXCEPT !.x = rt, !.y = rt, !.pc = "uint16"]
    /\ ram' = [c \in PointerCells(t, h, xv, yv)
                     \cup (IF t # 0 THEN {ProgramBase} ELSE {})
                     \cup (IF h # 0 THEN {ProgramBase + 1} ELSE {}) |->
                  IF c = ProgramBase THEN t
                  ELSE IF c = ProgramBase + 1 THEN h
                  ELSE Mark(c)]
    /\ op' = "arrange" /\ arg' = <<t, h, xv, yv>> /\ ret' = << >>
    /\ UNCHANGED <<a, stkp, status, addr_abs, addr_rel, opcode, cycles, fetched,
                   err, ghostvars, ncalls, viewvars>>

\* cpu.address_mode_selector.select(mode)
ModeCall(mode) ==
    /\ op = "arrange"
    /\ \E s \in {AddressModeSelector_select(Cur, mode)} :
           /\ Install(s)
           /\ err' = s.err
           /\ ret' = IF s.err = "none" THEN <<s.rv>> ELSE << >>
    /\ op' = "mode" /\ arg' = <<mode>>
    /\ UNCHANGED <<ghostvars, ncalls, viewvars>>

\* every operand byte with every byte in x (and its complement in y), the
\* pointer in page 2; every operand byte with the pointer in pages 0 and
\* 0xFF; and the index values DEX and INX leave next to 0x00 and 0xFF
NextMode ==
    \/ op = "init" /\ \E t \in 0..255, xv \in 0..255 :
                          ArrangeModeCall(t, 2, xv, 255 - xv, "uint8")
    \/ op = "init" /\ \E t \in 0..255, h \in {0, 255} :
                          ArrangeModeCall(t, h, 0, 1, "uint8")
    \/ op = "init" /\ \E t \in 0..255, xv \in {-1, 256} :
                          ArrangeModeCall(t, 2, xv, 255 - xv, "int64")
    \/ \E mode \in {"ZPX", "ZPY", "IZX", "IZY", "IND"} : ModeCall(mode)

SpecMode == Init /\ [][NextMode]_vars

-----------------------------------------------------------------------------
(* The compare instructions called on an arranged CPU: the driver assigns  *)
(* the registers, the operand cell and the status byte, may run one        *)
(* handler that steps an index register, then calls a compare.             *)

\* cpu.register.a = cpu.register.x = cpu.register.y = uint8(r);
\* cpu.bus.ram[0] = m; cpu.register.status = st
ArrangeRegsCall(r, m, st) ==
    /\ op = "init"
    /\ a' = uint8(r) /\ x' = uint8(r) /\ y' = uint8(r)
    /\ dtype' = [dtype EXCEPT !.a = "uint8", !.x = "uint8", !.y = "uint8"]
    /\ ram' = Store(ram, 0, m)
    /\ status' = st
    /\ op' = "arrange" /\ arg' = <<r, m, st>> /\ ret' = << >>
    /\ UNCHANGED <<stkp, pc, addr_abs, addr_rel, opcode, cycles, fetched,
                   err, ghostvars, ncalls>>
    /\ UNCHANGED viewvars

\* every register value and operand byte with all flags clear and all set;
\* DEX or DEY first on the register values 0, 1 and 0xFF
NextCompare ==
    \/ op = "init" /\ \E r \in 0..255, m \in 0..255, st \in {0, 255} :
                          ArrangeRegsCall(r, m, st)
    \/ op = "arrange" /\ \E mn \in {"CMP", "CPX", "CPY"} : SelectCall(mn)
    \/ op = "arrange" /\ arg[1] \in {0, 1, 255}
                      /\ \E mn \in {"DEX", "DEY"} : SelectCall(mn)
    \/ op = "select" /\ arg[1] = "DEX" /\ SelectCall("CPX")
    \/ op = "select" /\ arg[1] = "DEY" /\ SelectCall("CPY")

SpecCompare == Init /\ [][NextCompare]_vars

-----------------------------------------------------------------------------
(* The stack instructions called on an arranged CPU: the driver assigns    *)
(* the status byte and the stack pointer, calls PHP, then handlers that    *)
(* change flags or use the stack, then PLP.                                *)

\* handler calls per run
MaxChain == 3

\* cpu.register.status = uint8(st); cpu.register.stkp = uint8(sp)
ArrangeStackCall(st, sp) ==
    /\ op = "init"
    /\ status' = uint8(st)
    /\ stkp' = uint8(sp)
    /\ dtype' = [dtype EXCEPT !.stkp = "uint8"]
    /\ op' = "arrange" /\ arg' = <<st, sp>> /\ ret' = << >>
    /\ UNCHANGED <<ram, a, x, y, pc, addr_abs, addr_rel, opcode, cycles,
                   fetched, err, ghostvars, ncalls>>
    /\ UNCHANGED viewvars

\* the handlers called between PHP and PLP
BetweenHandlers == {"CLC", "SEC", "CLI", "SEI", "CLD", "SED", "CLV", "INX", "DEX", "PHA"}

\* every status byte, with the stack pointer as reset() leaves it and at
\* both ends of the page
NextStack ==
    \/ op = "init" /\ \E st \in 0..255, sp \in {0, 253, 255} : ArrangeStackCall(st, sp)
    \/ op = "arrange" /\ ncalls < MaxChain /\ SelectStep("PHP")
    \/ op = "select" /\ ncalls < MaxChain - 1
                     /\ \E m \in BetweenHandlers : SelectStep(m)
    \/ op = "select" /\ arg = <<"PHA">> /\ ncalls < MaxChain /\ SelectStep("PLA")
    \/ op = "select" /\ arg # <<"PLP">> /\ ncalls < MaxChain + 1 /\ SelectStep("PLP")

SpecStack == Init /\ [][NextStack]_vars

-----------------------------------------------------------------------------
(* The stepper with interrupts: a 16-byte image loaded at 0xFFF0 that      *)
(* holds the main program at 0xFFF0, the interrupt handler (RTI) at        *)
(* 0xFFF8 and the three vectors; reset(), then clock() with irq() and      *)
(* nmi() called between any two clock() calls.                             *)

\* calls of reset, irq and nmi per run
MaxEntries == 3

\* the main programs: NOPs; CLC, BCC -2; SEI, NOP; CLI, NOP
MainPrograms ==
    {<<234, 234, 234>>, <<24, 144, 254>>, <<120, 234, 234>>, <<88, 234, 234>>}

\* main program, padding, RTI at 0xFFF8, then the nmi, reset and irq vectors
InterruptRoms ==
    {main \o <<234, 234, 234, 234, 234>> \o <<64, 234>>
          \o <<248, 255, 240, 255, 248, 255>> : main \in MainPrograms}

IrqStep == ncalls < MaxEntries /\ \E s \in {irq(Cur)} : EntryStep("irq", s)

NmiStep == ncalls < MaxEntries /\ \E s \in {nmi(Cur)} : EntryStep("nmi", s)

NextInterrupts ==
    \/ op = "init" /\ \E rom \in InterruptRoms : LoadRom(65520, rom)
    \/ op = "loadrom" /\ ResetCall
    \/ StepCall
    \/ ncalls >= 1 /\ IrqStep
    \/ ncalls >= 1 /\ NmiStep

SpecInterrupts == Init /\ [][NextInterrupts]_vars

-----------------------------------------------------------------------------
(* Properties.                                                             *)

Writes == {"Bus.write", "Olc6502.write"}
Reads == {"Bus.read", "Olc6502.read"}

\* the cells of r1 and r2 other than cell i hold the same bytes
SameExcept(r1, r2, i) ==
    \A j \in (DOMAIN r1 \cup DOMAIN r2) \ {i} : RamAt(r1, j) = RamAt(r2, j)

\* C1: a write of byte d to an address a in 0x0000..0xFFFF, through the bus
\* or through the CPU, stores d at a and leaves every other cell as it was,
\* and a read of a that follows it returns d.
C1_RoundTrip ==
    [][/\ (op' \in Writes /\ InRange(arg'[1]))
            => /\ err' = "none"
               /\ RamAt(ram', arg'[1]) = arg'[2]
               /\ SameExcept(ram, ram', arg'[1])
       /\ (op \in Writes /\ err = "none" /\ op' \in Reads /\ arg'[1] = arg[1])
            => ret' = <<arg[2]>>]_vars

C1_Witness ==
    /\ op = "Bus.read" /\ arg = <<4660>> /\ ret = <<171>>
    /\ RamAt(ram, 65535) = 85

\* C2: Bus.write to an address outside 0x0000..0xFFFF raises IndexError
\* and leaves every RAM cell unchanged.
C2_WriteBounds ==
    [][(op' = "Bus.write" /\ ~InRange(arg'[1]))
            => (err' = "IndexError" /\ ram' = ram)]_vars

C2_Witness ==
    /\ op = "Bus.write" /\ arg = <<65536, 171>> /\ err = "IndexError"
    /\ RamAt(ram, 0) = 85

\* C3: Bus.read of an address outside 0x0000..0xFFFF returns 0x00, does
\* not raise, and leaves RAM unchanged.
C3_ReadBounds ==
    [][(op' = "Bus.read" /\ ~InRange(arg'[1]))
            => (ret' = <<0>> /\ err' = "none" /\ ram' = ram)]_vars

C3_Witness ==
    /\ op = "Bus.read" /\ arg = <<65536>> /\ ret = <<0>> /\ err = "none"
    /\ RamAt(ram, 0) = 171

\* bit f of the status byte st, by division
HasBit(st, f) == (st \div FlagValue(f)) % 2

\* C4: get_flag(f) returns 1 when bit f of the status byte is set and 0
\* otherwise; set_flag(f, v) makes get_flag(f) equal v, leaves get_flag(g)
\* as it was for every other flag g, and keeps status within 0..255.
C4_Flags ==
    [][/\ (op' = "get_flag" => ret' = <<HasBit(status, arg'[1])>>)
       /\ (op' = "set_flag"
            => /\ status' \in 0..255
               /\ HasBit(status', arg'[1]) = (IF arg'[2] THEN 1 ELSE 0)
               /\ Register_get_flag(status', arg'[1]) = (IF arg'[2] THEN 1 ELSE 0)
               /\ \A g \in Flags \ {arg'[1]} :
                     /\ HasBit(status', g) = HasBit(status, g)
                     /\ Register_get_flag(status', g) = Register_get_flag(status, g))]_vars

C4_Witness ==
    op = "set_flag" /\ arg = <<"B", FALSE>> /\ status = 239

\* C5: from any CPU state, reset() leaves pc = (hi << 8) | lo for the bytes
\* lo at 0xFFFC and hi at 0xFFFD, a = x = y = 0, stkp = 0xFD, status = 0x20,
\* addr_abs = addr_rel = 0, fetched = 0 and cycles = 8, and changes no
\* memory cell.
C5_Reset ==
    [][op' = "reset"
        => /\ err' = "none"
           /\ pc' = RamAt(ram, 65533) * 256 + RamAt(ram, 65532)
           /\ a' = 0 /\ x' = 0 /\ y' = 0
           /\ stkp' = 253
           /\ status' = 32
           /\ addr_abs' = 0 /\ addr_rel' = 0
           /\ fetched' = 0
           /\ cycles' = 8
           /\ ram' = ram]_vars

C5_Witness ==
    /\ op = "reset" /\ pc = 32769 /\ a = 0 /\ status = 32 /\ cycles = 8
    /\ opcode = 169 /\ ndisp = 1 /\ ncalls = 2

C7_Waiting ==
    [][(op' = "clock" /\ cycles # 0)
        => /\ err' = "none"
           /\ cycles' # cycles
           /\ UNCHANGED <<a, x, y, stkp, pc, status, opcode, addr_abs,
                          addr_rel, fetched, ram>>]_vars

C7_Witness ==
    /\ op = "clock" /\ since = 2 /\ ndisp = 1 /\ ncalls = 1
    /\ a = 128 /\ opcode = 169 /\ pc = 32770

\* C8: select(JAM) raises ValueError and leaves the register file and the
\* memory as they were before the call.
C8_Jam ==
    [][(op' = "select" /\ arg' = <<"JAM">>)
        => /\ err' = "ValueError"
           /\ UNCHANGED <<a, x, y, stkp, pc, status, ram>>]_vars

C8_Witness ==
    /\ op = "select" /\ arg = <<"JAM">> /\ err = "ValueError"
    /\ RamAt(ram, 0) = 255 /\ status = 128

\* C9: every opcode whose table entry is a legal mnemonic (not JAM) is
\* dispatched by clock() without an error.
C9_LegalOpcodesRun ==
    (op = "clock" /\ Lookup(opcode).opcode # "JAM") => err = "none"

\* the literal decode table of the specification (section 6)
SpecTableRows ==
    <<
      <<"BRK", "IMM", 7, 1>>, <<"ORA", "IZX", 6, 2>>, <<"JAM", "IMP", 2, 0>>, <<"JAM", "IMP", 8, 0>>,
      <<"JAM", "IMP", 3, 0>>, <<"ORA", "ZP0", 3, 2>>, <<"ASL", "ZP0", 5, 2>>, <<"JAM", "IMP", 5, 0>>,
      <<"PHP", "IMP", 3, 1>>, <<"ORA", "IMM", 2, 2>>, <<"ASL", "IMP", 2, 1>>, <<"JAM", "IMP", 2, 0>>,
      <<"JAM", "IMP", 4, 0>>, <<"ORA", "ABS", 4, 3>>, <<"ASL", "ABS", 6, 3>>, <<"JAM", "IMP", 6, 0>>,
      <<"BPL", "REL", 2, 2>>, <<"ORA", "IZY", 5, 2>>, <<"JAM", "IMP", 2, 0>>, <<"JAM", "IMP", 8, 0>>,
      <<"JAM", "IMP", 4, 0>>, <<"ORA", "ZPX", 4, 2>>, <<"ASL", "ZPX", 6, 2>>, <<"JAM", "IMP", 6, 0>>,
      <<"CLC", "IMP", 2, 1>>, <<"ORA", "ABY", 4, 3>>, <<"JAM", "IMP", 2, 0>>, <<"JAM", "IMP", 7, 0>>,
      <<"JAM", "IMP", 4, 0>>, <<"ORA", "ABX", 4, 3>>, <<"ASL", "ABX", 7, 3>>, <<"JAM", "IMP", 7, 0>>,
      <<"JSR", "ABS", 6, 3>>, <<"AND", "IZX", 6, 2>>, <<"JAM", "IMP", 2, 0>>, <<"JAM", "IMP", 8, 0>>,
      <<"BIT", "ZP0", 3, 2>>, <<"AND", "ZP0", 3, 2>>, <<"ROL", "ZP0", 5, 2>>, <<"JAM", "IMP", 5, 0>>,
      <<"PLP", "IMP", 4, 1>>, <<"AND", "IMM", 2, 2>>, <<"ROL", "IMP", 2, 1>>, <<"JAM", "IMP", 2, 0>>,
      <<"BIT", "ABS", 4, 3>>, <<"AND", "ABS", 4, 3>>, <<"ROL", "ABS", 6, 3>>, <<"JAM", "IMP", 6, 0>>,
      <<"BMI", "REL", 2, 2>>, <<"AND", "IZY", 5, 2>>, <<"JAM", "IMP", 2, 0>>, <<"JAM", "IMP", 8, 0>>,
      <<"JAM", "IMP", 4, 0>>, <<"AND", "ZPX", 4, 2>>, <<"ROL", "ZPX", 6, 2>>, <<"JAM", "IMP", 6, 0>>,
      <<"SEC", "IMP", 2, 1>>, <<"AND", "ABY", 4, 3>>, <<"JAM", "IMP", 2, 0>>, <<"JAM", "IMP", 7, 0>>,
      <<"JAM", "IMP", 4, 0>>, <<"AND", "ABX", 4, 3>>, <<"ROL", "ABX", 7, 3>>, <<"JAM", "IMP", 7, 0>>,
      <<"RTI", "IMP", 6, 1>>, <<"EOR", "IZX", 6, 2>>, <<"JAM", "IMP", 2, 0>>, <<"JAM", "IMP", 8, 0>>,
      <<"JAM", "IMP", 3, 0>>, <<"EOR", "ZP0", 3, 2>>, <<"LSR", "ZP0", 5, 2>>, <<"JAM", "IMP", 5, 0>>,
      <<"PHA", "IMP", 3, 1>>, <<"EOR", "IMM", 2, 2>>, <<"LSR", "IMP", 2, 1>>, <<"JAM", "IMP", 2, 0>>,
      <<"JMP", "ABS", 3, 3>>, <<"EOR", "ABS", 4, 3>>, <<"LSR", "ABS", 6, 3>>, <<"JAM", "IMP", 6, 0>>,
      <<"BVC", "REL", 2, 2>>, <<"EOR", "IZY", 5, 2>>, <<"JAM", "IMP", 2, 0>>, <<"JAM", "IMP", 8, 0>>,
      <<"JAM", "IMP", 4, 0>>, <<"EOR", "ZPX", 4, 2>>, <<"LSR", "ZPX", 6, 2>>, <<"JAM", "IMP", 6, 0>>,
      <<"CLI", "IMP", 2, 1>>, <<"EOR", "ABY", 4, 3>>, <<"JAM", "IMP", 2, 0>>, <<"JAM", "IMP", 7, 0>>,
      <<"JAM", "IMP", 4, 0>>, <<"EOR", "ABX", 4, 3>>, <<"LSR", "ABX", 7, 3>>, <<"JAM", "IMP", 7, 0>>,
      <<"RTS", "IMP", 6, 1>>, <<"ADC", "IZX", 6, 2>>, <<"JAM", "IMP", 2, 0>>, <<"JAM", "IMP", 8, 0>>,
      <<"JAM", "IMP", 3, 0>>, <<"ADC", "ZP0", 3, 2>>, <<"ROR", "ZP0", 5, 2>>, <<"JAM", "IMP", 5, 0>>,
      <<"PLA", "IMP", 4, 1>>, <<"ADC", "IMM", 2, 2>>, <<"ROR", "IMP", 2, 1>>, <<"JAM", "IMP", 2, 0>>,
      <<"JMP", "IND", 5, 3>>, <<"ADC", "ABS", 4, 3>>, <<"ROR", "ABS", 6, 3>>, <<"JAM", "IMP", 6, 0>>,
      <<"BVS", "REL", 2, 2>>, <<"ADC", "IZY", 5, 2>>, <<"JAM", "IMP", 2, 0>>, <<"JAM", "IMP", 8, 0>>,
      <<"JAM", "IMP", 4, 0>>, <<"ADC", "ZPX", 4, 2>>, <<"ROR", "ZPX", 6, 2>>, <<"JAM", "IMP", 6, 0>>,
      <<"SEI", "IMP", 2, 1>>, <<"ADC", "ABY", 4, 3>>, <<"JAM", "IMP", 2, 0>>, <<"JAM", "IMP", 7, 0>>,
      <<"JAM", "IMP", 4, 0>>, <<"ADC", "ABX", 4, 3>>, <<"ROR", "ABX", 7, 3>>, <<"JAM", "IMP", 7, 0>>,
      <<"JAM", "IMP", 2, 0>>, <<"STA", "IZX", 6, 2>>, <<"JAM", "IMP", 2, 0>>, <<"JAM", "IMP", 6, 0>>,
      <<"STY", "ZP0", 3, 2>>, <<"STA", "ZP0", 3, 2>>, <<"STX", "ZP0", 3, 2>>, <<"JAM", "IMP", 3, 0>>,
      <<"DEY", "IMP", 2, 1>>, <<"JAM", "IMP", 2, 0>>, <<"TXA", "IMP", 2, 1>>, <<"JAM", "IMP", 2, 0>>,
      <<"STY", "ABS", 4, 3>>, <<"STA", "ABS", 4, 3>>, <<"STX", "ABS", 4, 3>>, <<"JAM", "IMP", 4, 0>>,
      <<"BCC", "REL", 2, 2>>, <<"STA", "IZY", 6, 2>>, <<"JAM", "IMP", 2, 0>>, <<"JAM", "IMP", 6, 0>>,
      <<"STY", "ZPX", 4, 2>>, <<"STA", "ZPX", 4, 2>>, <<"STX", "ZPY", 4, 2>>, <<"JAM", "IMP", 4, 0>>,
      <<"TYA", "IMP", 2, 1>>, <<"STA", "ABY", 5, 3>>, <<"TXS", "IMP", 2, 1>>, <<"JAM", "IMP", 5, 0>>,
      <<"JAM", "IMP", 5, 0>>, <<"STA", "ABX", 5, 3>>, <<"JAM", "IMP", 5, 0>>, <<"JAM", "IMP", 5, 0>>,
      <<"LDY", "IMM", 2, 2>>, <<"LDA", "IZX", 6, 2>>, <<"LDX", "IMM", 2, 2>>, <<"JAM", "IMP", 6, 0>>,
      <<"LDY", "ZP0", 3, 2>>, <<"LDA", "ZP0", 3, 2>>, <<"LDX", "ZP0", 3, 2>>, <<"JAM", "IMP", 3, 0>>,
      <<"TAY", "IMP", 2, 1>>, <<"LDA", "IMM", 2, 2>>, <<"TAX", "IMP", 2, 1>>, <<"JAM", "IMP", 2, 0>>,
      <<"LDY", "ABS", 4, 3>>, <<"LDA", "ABS", 4, 3>>, <<"LDX", "ABS", 4, 3>>, <<"JAM", "IMP", 4, 0>>,
      <<"BCS", "REL", 2, 2>>, <<"LDA", "IZY", 5, 2>>, <<"JAM", "IMP", 2, 0>>, <<"JAM", "IMP", 5, 0>>,
      <<"LDY", "ZPX", 4, 2>>, <<"LDA", "ZPX", 4, 2>>, <<"LDX", "ZPY", 4, 2>>, <<"JAM", "IMP", 4, 0>>,
      <<"CLV", "IMP", 2, 1>>, <<"LDA", "ABY", 4, 3>>, <<"TSX", "IMP", 2, 1>>, <<"JAM", "IMP", 4, 0>>,
      <<"LDY", "ABX", 4, 3>>, <<"LDA", "ABX", 4, 3>>, <<"LDX", "ABY", 4, 3>>, <<"JAM", "IMP", 4, 0>>,
      <<"CPY", "IMM", 2, 2>>, <<"CMP", "IZX", 6, 2>>, <<"JAM", "IMP", 2, 0>>, <<"JAM", "IMP", 8, 0>>,
      <<"CPY", "ZP0", 3, 2>>, <<"CMP", "ZP0", 3, 2>>, <<"DEC", "ZP0", 5, 2>>, <<"JAM", "IMP", 5, 0>>,
      <<"INY", "IMP", 2, 1>>, <<"CMP", "IMM", 2, 2>>, <<"DEX", "IMP", 2, 1>>, <<"JAM", "IMP", 2, 0>>,
      <<"CPY", "ABS", 4, 3>>, <<"CMP", "ABS", 4, 3>>, <<"DEC", "ABS", 6, 3>>, <<"JAM", "IMP", 6, 0>>,
      <<"BNE", "REL", 2, 2>>, <<"CMP", "IZY", 5, 2>>, <<"JAM", "IMP", 2, 0>>, <<"JAM", "IMP", 8, 0>>,
      <<"JAM", "IMP", 4, 0>>, <<"CMP", "ZPX", 4, 2>>, <<"DEC", "ZPX", 6, 2>>, <<"JAM", "IMP", 6, 0>>,
      <<"CLD", "IMP", 2, 1>>, <<"CMP", "ABY", 4, 3>>, <<"NOP", "IMP", 2, 1>>, <<"JAM", "IMP", 7, 0>>,
      <<"JAM", "IMP", 4, 0>>, <<"CMP", "ABX", 4, 3>>, <<"DEC", "ABX", 7, 3>>, <<"JAM", "IMP", 7, 0>>,
      <<"CPX", "IMM", 2, 2>>, <<"SBC", "IZX", 6, 2>>, <<"JAM", "IMP", 2, 0>>, <<"JAM", "IMP", 8, 0>>,
      <<"CPX", "ZP0", 3, 2>>, <<"SBC", "ZP0", 3, 2>>, <<"INC", "ZP0", 5, 2>>, <<"JAM", "IMP", 5, 0>>,
      <<"INX", "IMP", 2, 1>>, <<"SBC", "IMM", 2, 2>>, <<"NOP", "IMP", 2, 1>>, <<"JAM", "IMP", 2, 0>>,
      <<"CPX", "ABS", 4, 3>>, <<"SBC", "ABS", 4, 3>>, <<"INC", "ABS", 6, 3>>, <<"JAM", "IMP", 6, 0>>,
      <<"BEQ", "REL", 2, 2>>, <<"SBC", "IZY", 5, 2>>, <<"JAM", "IMP", 2, 0>>, <<"JAM", "IMP", 8, 0>>,
      <<"JAM", "IMP", 4, 0>>, <<"SBC", "ZPX", 4, 2>>, <<"INC", "ZPX", 6, 2>>, <<"JAM", "IMP", 6, 0>>,
      <<"SED", "IMP", 2, 1>>, <<"SBC", "ABY", 4, 3>>, <<"NOP", "IMP", 2, 1>>, <<"JAM", "IMP", 7, 0>>,
      <<"JAM", "IMP", 4, 0>>, <<"SBC", "ABX", 4, 3>>, <<"INC", "ABX", 7, 3>>, <<"JAM", "IMP", 7, 0>>
    >>

\* C10: for every opcode, the table's mnemonic, addressing mode, cycles and
\* size are those of the specification's literal table.
C10_TableAsSpecified ==
    op = "lookup"
        => LET r == SpecTableRows[arg[1] + 1]
           IN  ret = <<[opcode |-> r[1], addr_mode |-> r[2],
                        cycles |-> r[3], size |-> r[4]]>>

\* C11: load_to_ram(offset, file) on a fresh bus, for a file of N bytes that
\* fits below the 64 KB ceiling, copies the bytes in order into
\* ram[offset .. offset+N), leaves every other cell zero, and returns
\* offset + N.
C11_Loader ==
    (op = "load_to_ram" /\ arg[1] + Len(arg[2]) <= 65536)
        => /\ err = "none"
           /\ \A i \in 1..Len(arg[2]) : RamAt(ram, arg[1] + i - 1) = arg[2][i]
           /\ \A j \in DOMAIN ram : j \in arg[1]..(arg[1] + Len(arg[2]) - 1)
           /\ ret = <<arg[1] + Len(arg[2])>>

\* the part of C11 about the memory alone
C11_Copy ==
    (op = "load_to_ram" /\ arg[1] + Len(arg[2]) <= 65536)
        => /\ err = "none"
           /\ \A i \in 1..Len(arg[2]) : RamAt(ram, arg[1] + i - 1) = arg[2][i]
           /\ \A j \in DOMAIN ram : j \in arg[1]..(arg[1] + Len(arg[2]) - 1)

\* C12: for every accumulator a, operand m and carry-in c, ADC leaves
\* a' = (a + m + c) mod 256, C = (a + m + c > 255), Z = (a' = 0),
\* N = bit 7 of a', and V = 1 exactly when a and m have the same sign bit
\* and a' has the opposite one.
C12_Adc ==
    [][(op' = "select" /\ arg' = <<"ADC">>)
        => LET m == RamAt(ram, addr_abs)
               sum == a + m + HasBit(status, "C")
           IN  /\ err' = "none"
               /\ fetched' = m
               /\ a' = sum % 256
               /\ HasBit(status', "C") = (IF sum > 255 THEN 1 ELSE 0)
               /\ HasBit(status', "Z") = (IF a' = 0 THEN 1 ELSE 0)
               /\ HasBit(status', "N") = a' \div 128
               /\ HasBit(status', "V")
                    = (IF a \div 128 = m \div 128 /\ a' \div 128 # a \div 128
                       THEN 1 ELSE 0)]_vars

C12_Witness ==
    /\ op = "select" /\ arg = <<"ADC">> /\ err = "none"
    /\ RamAt(ram, 0) = 80 /\ a = 160 /\ status = 192

\* C13: ASL dispatched with Implied addressing (opcode 0x0A) shifts the
\* current accumulator: a' = (a << 1) mod 256, C = bit 7 of the old a,
\* Z = (a' = 0), N = bit 7 of a', and no memory cell is written.
C13_AslAccumulator ==
    [][(op' = "clock" /\ ndisp' = ndisp + 1 /\ opcode' = 10)
        => /\ err' = "none"
           /\ a' = (a * 2) % 256
           /\ HasBit(status', "C") = a \div 128
           /\ HasBit(status', "Z") = (IF a' = 0 THEN 1 ELSE 0)
           /\ HasBit(status', "N") = a' \div 128
           /\ ram' = ram]_vars

\* whether the branch mn is taken with status byte st
BranchTaken(mn, st) ==
    CASE mn = "BCC" -> HasBit(st, "C") = 0
      [] mn = "BCS" -> HasBit(st, "C") = 1
      [] mn = "BNE" -> HasBit(st, "Z") = 0
      [] mn = "BEQ" -> HasBit(st, "Z") = 1
      [] mn = "BPL" -> HasBit(st, "N") = 0
      [] mn = "BMI" -> HasBit(st, "N") = 1
      [] mn = "BVC" -> HasBit(st, "V") = 0
      [] mn = "BVS" -> HasBit(st, "V") = 1

\* the cycle accounting of C14 for the branches named in mns; p is the pc
\* after the operand byte and dest the destination p + displacement
BranchAccounting(mns) ==
    (op' = "clock" /\ ndisp' = ndisp + 1 /\ Lookup(opcode').opcode \in mns)
        => LET p == pc + 2
               rel == RamAt(ram, pc + 1)
               dest == (p + (IF rel >= 128 THEN rel - 256 ELSE rel)) % 65536
               taken == BranchTaken(Lookup(opcode').opcode, status)
           IN  /\ err' = "none"
               /\ cost' = Lookup(opcode').cycles
                            + (IF ~taken THEN 0
                               ELSE IF dest \div 256 = p \div 256 THEN 1 ELSE 2)
               /\ ~taken => pc' = p

\* C14: for every branch mnemonic, a taken branch to the same page as p
\* costs base + 1 cycles, a taken branch to another page base + 2, and a
\* branch not taken costs base cycles and leaves pc = p.
C14_BranchCycles ==
    [][BranchAccounting({"BCC", "BCS", "BEQ", "BNE", "BMI", "BPL", "BVC", "BVS"})]_vars

\* the same for the six branches that have a handler
C14_ImplementedBranches ==
    [][BranchAccounting({"BCC", "BCS", "BEQ", "BNE", "BMI", "BPL"})]_vars

\* the flag a flag instruction names and the bit it gives it
FlagOp(m) ==
    CASE m = "CLC" -> <<"C", 0>>
      [] m = "CLD" -> <<"D", 0>>
      [] m = "CLI" -> <<"I", 0>>
      [] m = "CLV" -> <<"V", 0>>
      [] m = "SEC" -> <<"C", 1>>
      [] m = "SED" -> <<"D", 1>>
      [] m = "SEI" -> <<"I", 1>>

\* C15: each of CLC, CLD, CLI, CLV, SEC, SED, SEI gives its one named flag
\* the value 0 (CLx) or 1 (SEx), leaves every other status bit, every
\* register and all memory unchanged, and returns False (no extra cycle).
C15_FlagInstructions ==
    [][(op' = "select"
            /\ arg'[1] \in {"CLC", "CLD", "CLI", "CLV", "SEC", "SED", "SEI"})
        => /\ err' = "none"
           /\ ret' = <<FALSE>>
           /\ status' \in 0..255
           /\ HasBit(status', FlagOp(arg'[1])[1]) = FlagOp(arg'[1])[2]
           /\ \A g \in Flags \ {FlagOp(arg'[1])[1]} :
                 HasBit(status', g) = HasBit(status, g)
           /\ UNCHANGED <<a, x, y, stkp, pc, ram, addr_abs, addr_rel, opcode,
                          cycles, fetched>>]_vars

C15_Witness ==
    /\ op = "select" /\ arg = <<"CLD">> /\ ret = <<FALSE>>
    /\ status = 117 /\ x = 1 /\ ncalls = 2

\* C16: irq() called while InterruptDisable is set changes nothing: the
\* registers, status, pc, stkp, cycles, addr_abs and every memory cell are
\* as they were.
C16_IrqMasked ==
    [][(op' = "irq" /\ HasBit(status, "I") = 1)
        => /\ err' = "none"
           /\ UNCHANGED <<a, x, y, stkp, pc, status, cycles, addr_abs,
                          addr_rel, opcode, fetched, ram>>]_vars

C16_Witness ==
    /\ op = "irq" /\ err = "none" /\ opcode = 120 /\ status = 36
    /\ stkp = 253 /\ pc = 32769 /\ cycles = 1 /\ ncalls = 2

\* C17: with s the stack pointer on entry, irq() with InterruptDisable
\* clear, and nmi() always, write pc's high byte to 0x0100+s, pc's low byte
\* to 0x0100+s-1 and, to 0x0100+s-2, the status byte with Break clear and
\* Unused and InterruptDisable set; leave stkp = s-3; load pc little-endian
\* from 0xFFFE/0xFFFF (irq) or 0xFFFA/0xFFFB (nmi); and set cycles to 7
\* (irq) or 8 (nmi).
C17_InterruptSequence ==
    [][(op' = "nmi" \/ (op' = "irq" /\ HasBit(status, "I") = 0))
        => LET vector == IF op' = "irq" THEN 65534 ELSE 65530
           IN  /\ err' = "none"
               /\ RamAt(ram', 256 + stkp) = (pc \div 256) % 256
               /\ RamAt(ram', 256 + stkp - 1) = pc % 256
               /\ RamAt(ram', 256 + stkp - 2) = status'
               /\ HasBit(status', "B") = 0
               /\ HasBit(status', "U") = 1
               /\ HasBit(status', "I") = 1
               /\ \A g \in Flags \ {"B", "U", "I"} :
                     HasBit(status', g) = HasBit(status, g)
               /\ stkp' = stkp - 3
               /\ pc' = RamAt(ram', vector + 1) * 256 + RamAt(ram', vector)
               /\ cycles' = (IF op' = "irq" THEN 7 ELSE 8)]_vars

C17_Witness ==
    /\ op = "irq" /\ err = "none" /\ ncalls = 2 /\ ndisp = 0
    /\ stkp = 250 /\ cycles = 7 /\ pc = ProgramBase + 3 /\ status = 36
    /\ RamAt(ram, 509) = 128 /\ RamAt(ram, 508) = 1 /\ RamAt(ram, 507) = 36

\* C18: RTS pops the pc low byte, then the pc high byte, sets
\* pc = ((high << 8) | low) + 1 and raises stkp by 2; so a JSR at address A
\* followed by an RTS resumes at A + 3 with stkp as it was before the JSR.
C18_Rts ==
    [][(op' = "clock" /\ ndisp' = ndisp + 1 /\ Lookup(opcode').opcode = "RTS")
        => /\ err' = "none"
           /\ pc' = (RamAt(ram, 256 + stkp + 2) * 256
                        + RamAt(ram, 256 + stkp + 1) + 1) % 65536
           /\ stkp' = stkp + 2
           /\ (ndisp = 1 /\ Lookup(opcode).opcode = "JSR")
                => /\ pc' = RamAt(ram, 65533) * 256 + RamAt(ram, 65532) + 3
                   /\ stkp' = 253]_vars

\* C19: in every state reached from reset() by clock() calls, pc is in
\* 0..0xFFFF: every advance of pc wraps modulo 65536.
C19_PcWraps ==
    ncalls >= 1 => pc \in 0..65535

\* C20: in every reachable state stkp is in 0..0xFF: pushes and pulls wrap
\* modulo 256.
C20_StkpWraps ==
    stkp \in 0..255

\* the mnemonics of the branch instructions
BranchMnemonics == {"BCC", "BCS", "BEQ", "BMI", "BNE", "BPL", "BVC", "BVS"}

\* the mnemonics that take the extra cycle of a page crossing
ExtraCycleMnemonics == {"ADC", "SBC", "AND", "ORA", "EOR", "CMP", "LDA", "LDX", "LDY"}

\* for the instruction at pc: its mode is indexed and low byte + index > 0xFF
IndexCarries ==
    LET mode == Lookup(Bus_read(ram, pc)).addr_mode
        t == Bus_read(ram, pc + 1)
    IN  \/ mode = "ABX" /\ t + x > 255
        \/ mode = "ABY" /\ t + y > 255
        \/ mode = "IZY" /\ Bus_read(ram, t) + y > 255

\* the step is a clock() that dispatched a legal non-branch opcode
DispatchedNonBranch ==
    /\ op' = "clock" /\ ndisp' = ndisp + 1 /\ err' = "none"
    /\ Lookup(opcode').opcode \notin BranchMnemonics \cup {"JAM"}

\* the cost the claim gives the instruction at pc
ClaimedCost ==
    LET e == Lookup(Bus_read(ram, pc))
    IN  e.cycles + (IF IndexCarries /\ e.opcode \in ExtraCycleMnemonics THEN 1 ELSE 0)

\* C21: every dispatch of a legal non-branch opcode sets the cycle cost to
\* the table's base count, plus one exactly when the mode is AbsoluteX,
\* AbsoluteY or IndirectY, low byte + index register exceeds 0xFF and the
\* mnemonic is one of ADC, SBC, AND, ORA, EOR, CMP, LDA, LDX, LDY.
C21_ExtraCycle == [][DispatchedNonBranch => cost' = ClaimedCost]_vars

\* the same, for dispatches entered with x and y holding a byte
C21_ByteIndex ==
    [][(DispatchedNonBranch /\ x \in 0..255 /\ y \in 0..255) => cost' = ClaimedCost]_vars

\* the 16-byte-aligned row addresses of the 64 KB
RowKeys == {16 * n : n \in 0..4095}

\* the header rows 0x0000..0x0070
HeaderKeys == {16 * n : n \in 0..7}

\* the 128-byte chunks of RAM that hold a non-zero byte, by number
NonZeroChunks == {i \div 128 : i \in DOMAIN ram}

\* C22: after load_from_file the hex-dump model has the eight header rows,
\* a non-header row exactly for the row addresses whose 128-byte chunk
\* holds a non-zero byte, and every row holds the 16 RAM bytes from its
\* address; an image with one non-zero chunk gives the 8 rows of that chunk
\* and the headers.
C22_HexDump ==
    (op = "load_from_file" /\ err = "none") =>
        /\ HeaderKeys \subseteq DOMAIN hex_dump
        /\ DOMAIN hex_dump \subseteq RowKeys
        /\ \A k \in RowKeys \ HeaderKeys :
               k \in DOMAIN hex_dump <=> (k \div 128) \in NonZeroChunks
        /\ \A k \in DOMAIN hex_dump :
               /\ Len(hex_dump[k]) = 16
               /\ \A i \in 1..16 : hex_dump[k][i] = RamAt(ram, k + i - 1)
        /\ \A c \in 0..511 :
               NonZeroChunks = {c} =>
                   DOMAIN hex_dump = HeaderKeys \cup {128 * c + 16 * j : j \in 0..7}

\* a file with the bytes 07 00 FF loaded at 0x8000: 16 rows, the row at
\* 0x8000 starting 07 00 FF 00
C22_Witness ==
    /\ op = "load_from_file" /\ err = "none"
    /\ arg = <<ProgramBase, <<7, 0, 255>>>>
    /\ Cardinality(DOMAIN hex_dump) = 16
    /\ hex_dump[ProgramBase][1] = 7 /\ hex_dump[ProgramBase][3] = 255
    /\ hex_dump[ProgramBase + 112][16] = 0

\* C23: in the stepper loop the prompt occurs exactly when cycles reads 0
\* right after a clock() call: a prompt is preceded by a clock() that left
\* cycles = 0, having spent all the cycles of the reset (8, before any
\* opcode fetch) or of the instruction; a clock() that leaves cycles = 0 is
\* followed by the prompt; every opcode fetch comes right after a prompt,
\* so prompts and instructions alternate; after q nothing more is done,
\* and after any other line the loop goes on with the next opcode fetch.
C23_Prompt ==
    [][/\ op' = "input" =>
              /\ op = "clock" /\ cycles = 0 /\ since = cost
              /\ ndisp = 0 => cost = 8
       /\ (op = "clock" /\ err = "none" /\ cycles = 0) => op' = "input"
       /\ (op' = "clock" /\ ndisp' = ndisp + 1) =>
              (op = "input" /\ arg # <<"q">>)
       /\ op = "input" =>
              (arg # <<"q">> /\ op' = "clock" /\ ndisp' = ndisp + 1)]_vars

\* q typed at the prompt that follows the second instruction
C23_Witness ==
    /\ op = "input" /\ arg = <<"q">> /\ err = "none"
    /\ ndisp = 2 /\ cycles = 0 /\ since = cost /\ cost >= 2

\* C24: a dispatched immediate-mode instruction at address A (BRK, which
\* replaces pc, aside) leaves addr_abs = A + 1 and pc = A + 2, and LDA #v
\* loads the byte stored at A + 1.
C24_Immediate ==
    [][(/\ op' = "clock" /\ ndisp' = ndisp + 1 /\ err' = "none"
        /\ Lookup(opcode').addr_mode = "IMM"
        /\ Lookup(opcode').opcode # "BRK")
       => /\ addr_abs' = pc + 1
          /\ pc' = pc + 2
          /\ opcode' = 169 => a' = Bus_read(ram, pc + 1)]_vars

\* the operand byte of the mode called on the arranged CPU
OperandByte == RamAt(ram, ProgramBase)

\* the 16-bit pointer whose low byte is in cell lo and high byte in cell hi
PointerAt(lo, hi) == RamAt(ram, lo) + 256 * RamAt(ram, hi)

\* C29: zero-page indexing stays in page 0: ZeroPageX and ZeroPageY give
\* addr_abs = (t + index) mod 256, IndirectX takes its pointer from the
\* cells (t + x) mod 256 and (t + x + 1) mod 256, IndirectY from t and
\* (t + 1) mod 256 (y is then added to the pointer).
C29_ZeroPage ==
    (op = "mode" /\ err = "none") =>
        /\ arg = <<"ZPX">> => addr_abs = (OperandByte + x) % 256
        /\ arg = <<"ZPY">> => addr_abs = (OperandByte + y) % 256
        /\ arg = <<"IZX">> =>
               addr_abs = PointerAt((OperandByte + x) % 256,
                                    (OperandByte + x + 1) % 256)
        /\ arg = <<"IZY">> =>
               addr_abs % 65536 =
                   (PointerAt(OperandByte, (OperandByte + 1) % 256) + y) % 65536

\* IndirectX with t = 0xFF, x = 0x01: the pointer is taken from the cells
\* 0x00 and 0x01, not from 0x100 and 0x101
C29_Witness ==
    /\ op = "mode" /\ arg = <<"IZX">> /\ err = "none"
    /\ OperandByte = 255 /\ x = 1
    /\ RamAt(ram, 0) = 1 /\ RamAt(ram, 1) = 2 /\ RamAt(ram, 256) = 6
    /\ addr_abs = 513

\* C30: Indirect reads the low byte of the effective address from ptr and
\* the high byte from ptr + 1, except that for a ptr ending in 0xFF the
\* high byte comes from ptr & 0xFF00; pc has advanced by 2 and the mode
\* returns false (no extra cycle).
C30_Indirect ==
    (op = "mode" /\ arg = <<"IND">> /\ err = "none") =>
        LET ptr == OperandByte + 256 * RamAt(ram, ProgramBase + 1)
        IN  /\ addr_abs = PointerAt(ptr, IF ptr % 256 = 255 THEN ptr - 255 ELSE ptr + 1)
            /\ pc = ProgramBase + 2
            /\ ret = <<FALSE>>

\* ptr = 0x02FF: the high byte is the one in cell 0x0200, not in 0x0300
C30_Witness ==
    /\ op = "mode" /\ arg = <<"IND">> /\ err = "none"
    /\ OperandByte = 255 /\ RamAt(ram, ProgramBase + 1) = 2
    /\ RamAt(ram, 767) = 15 /\ RamAt(ram, 512) = 11 /\ RamAt(ram, 768) = 16
    /\ addr_abs = 15 + 256 * 11
    /\ pc = ProgramBase + 2

\* C25: a dispatched BRK entered with stack pointer s leaves the high and
\* low byte of the pc it saved at 0x0100 + s and 0x0100 + s - 1, the status
\* with Break set at 0x0100 + s - 2, stkp = s - 3, InterruptDisable set and
\* Break clear in the live status, and pc loaded from 0xFFFE/0xFFFF.
C25_Brk ==
    [][(op' = "clock" /\ ndisp' = ndisp + 1 /\ opcode' = 0)
       => /\ err' = "none"
          /\ HasBit(status', "I") = 1 /\ HasBit(status', "B") = 0
          /\ \E saved \in (pc + 1)..(pc + 3) :
                 /\ RamAt(ram', 256 + stkp) = saved \div 256
                 /\ RamAt(ram', 256 + stkp - 1) = saved % 256
          /\ RamAt(ram', 256 + stkp - 2) = BitOr(status', FlagValue("B"))
          /\ stkp' = stkp - 3
          /\ pc' = RamAt(ram, 65534) + 256 * RamAt(ram, 65535)]_vars

\* the cells whose content the step changes
CellsWritten == {c \in DOMAIN ram \cup DOMAIN ram' : RamAt(ram', c) # RamAt(ram, c)}

\* C26: every stack access is at 0x0100 + stkp, inside 0x0100..0x01FF: the
\* instructions and interrupts that push (they store nothing else) change
\* only cells of page 1, and the pulling instructions end with stkp, the
\* offset of their last pull, in 0..0xFF.
C26_StackPage ==
    [][/\ (\/ /\ op' = "clock" /\ ndisp' = ndisp + 1
              /\ Lookup(opcode').opcode \in {"BRK", "JSR", "PHA", "PHP"}
           \/ op' \in {"irq", "nmi"})
          => (err' = "none" /\ CellsWritten \subseteq 256..511)
       /\ (/\ op' = "clock" /\ ndisp' = ndisp + 1
           /\ Lookup(opcode').opcode \in {"PLA", "PLP", "RTS", "RTI"})
          => (stkp + 1 \in 0..255 /\ stkp' \in 0..255)]_vars

\* C27: once reset() has run, the Unused flag is set in status at the end of
\* every clock(), irq() and nmi() call: reset() leaves it set, and a call
\* that starts with it set ends with it set, whatever instruction the clock
\* dispatched (PHP and RTI clear it and PLP overwrites status while they run).
C27_Unused ==
    [][/\ op' = "reset" => HasBit(status', "U") = 1
       /\ (HasBit(status, "U") = 1 /\ op' \in {"clock", "irq", "nmi"})
          => HasBit(status', "U") = 1]_vars

\* the clock() after a reset() has dispatched RTI, which clears Unused in
\* the status it pulls, and Unused is set when the call ends
C27_Witness ==
    /\ op = "clock" /\ err = "none" /\ ncalls >= 1 /\ since = 1
    /\ Lookup(opcode).opcode = "RTI"
    /\ HasBit(status, "U") = 1

\* C28: a taken branch with displacement byte d, p being the pc after the
\* operand byte, ends with pc = (p + d) mod 65536 when d < 0x80 and with
\* pc = (p + d - 256) mod 65536 when d >= 0x80, so pc stays in 0..0xFFFF and
\* a backward branch lands at most 128 bytes before p.
C28_BranchTarget ==
    [][(/\ op' = "clock" /\ ndisp' = ndisp + 1 /\ err' = "none"
        /\ Lookup(opcode').opcode \in BranchMnemonics
        /\ BranchTaken(Lookup(opcode').opcode, status))
       => LET p == pc + 2
              d == RamAt(ram, pc + 1)
          IN  /\ pc' = (IF d < 128 THEN p + d ELSE p + d - 256) % 65536
              /\ pc' \in 0..65535
              /\ d >= 128 => (p - pc') % 65536 \in 1..128]_vars

\* the register a compare instruction reads
CompareRegister(mn) == CASE mn = "CMP" -> a [] mn = "CPX" -> x [] mn = "CPY" -> y

\* what C31 says of a compare of the register value r with the operand m
CompareAsClaimed(r, m) ==
    /\ err' = "none"
    /\ HasBit(status', "C") = (IF r >= m THEN 1 ELSE 0)
    /\ HasBit(status', "Z") = (IF r = m THEN 1 ELSE 0)
    /\ HasBit(status', "N") = ((r - m) % 256) \div 128
    /\ HasBit(status', "V") = HasBit(status, "V")
    /\ a' = a /\ x' = x /\ y' = y /\ ram' = ram

\* C31: a compare (CMP with a, CPX with x, CPY with y) of the register
\* value r with the fetched operand m sets C = (r >= m), Z = (r = m),
\* N = bit 7 of (r - m) mod 256 and leaves a, x, y, memory and V unchanged.
C31_Compare ==
    [][(op' = "select" /\ arg'[1] \in {"CMP", "CPX", "CPY"})
       => CompareAsClaimed(CompareRegister(arg'[1]), RamAt(ram, addr_abs))]_vars

\* the same for the compares whose register holds a byte
C31_ByteRegister ==
    [][(/\ op' = "select" /\ arg'[1] \in {"CMP", "CPX", "CPY"}
        /\ CompareRegister(arg'[1]) \in 0..255)
       => CompareAsClaimed(CompareRegister(arg'[1]), RamAt(ram, addr_abs))]_vars

\* ADC run on the current CPU with the operand cell holding v
AdcWithOperand(v) == ADC([Cur EXCEPT !.ram = Store(ram, addr_abs, v)])

\* C32: for every a, m in 0..255 and carry c, SBC with operand m leaves the
\* accumulator and the C, Z, N, V flags that ADC leaves with operand
\* m XOR 0xFF and the same carry-in; a' = (a - m - (1 - c)) mod 256, and C is
\* set exactly when the subtraction did not borrow.
C32_Sbc ==
    [][(op' = "select" /\ arg' = <<"SBC">>)
       => LET m == RamAt(ram, addr_abs)
              t == AdcWithOperand(BitXor(m, 255))
              diff == a - m - (1 - HasBit(status, "C"))
          IN  /\ err' = "none" /\ t.err = "none"
              /\ a' = t.a
              /\ \A f \in {"C", "Z", "N", "V"} :
                     HasBit(status', f) = HasBit(t.status, f)
              /\ a' = diff % 256
              /\ HasBit(status', "C") = (IF diff >= 0 THEN 1 ELSE 0)]_vars

\* C33: on a memory operand m with carry c, ROL stores ((m << 1) | c) mod 256
\* and leaves C = bit 7 of m; ROR stores (m >> 1) | (c << 7) and leaves
\* C = bit 0 of m; ROR after ROL on the same address therefore stores the
\* byte ROL fetched (kept in cpu.fetched) and leaves the carry that ROL
\* rotated into bit 0.
C33_Rotate ==
    [][/\ (op' = "select" /\ arg' = <<"ROL">>)
          => /\ err' = "none"
             /\ fetched' = RamAt(ram, addr_abs)
             /\ RamAt(ram', addr_abs)
                  = (2 * RamAt(ram, addr_abs) + HasBit(status, "C")) % 256
             /\ HasBit(status', "C") = RamAt(ram, addr_abs) \div 128
       /\ (op' = "select" /\ arg' = <<"ROR">>)
          => /\ err' = "none"
             /\ RamAt(ram', addr_abs)
                  = RamAt(ram, addr_abs) \div 2 + 128 * HasBit(status, "C")
             /\ HasBit(status', "C") = RamAt(ram, addr_abs) % 2
       /\ (op = "select" /\ arg = <<"ROL">> /\ op' = "select" /\ arg' = <<"ROR">>)
          => /\ RamAt(ram', addr_abs) = fetched
             /\ HasBit(status', "C") = RamAt(ram, addr_abs) % 2
             /\ a' = a /\ addr_abs' = addr_abs]_vars

\* 0x81 with the carry clear went to 0x02 with the carry set, and is back
C33_Witness ==
    /\ op = "select" /\ arg = <<"ROR">> /\ err = "none" /\ ncalls = 2
    /\ fetched = 2 /\ RamAt(ram, 0) = 129 /\ HasBit(status, "C") = 0

\* the CPU record of the state a step leads to
CurAfter ==
    [ram |-> ram', a |-> a', x |-> x', y |-> y', stkp |-> stkp', pc |-> pc',
     status |-> status', dtype |-> dtype', addr_abs |-> addr_abs',
     addr_rel |-> addr_rel', opcode |-> opcode', cycles |-> cycles',
     fetched |-> fetched', err |-> "none", rv |-> FALSE,
     ndisp |-> ndisp', cost |-> cost']

\* the handlers of the sequence ms run in order from s
RECURSIVE RunHandlers(_, _)
RunHandlers(s, ms) ==
    IF ms = << >> THEN s
    ELSE RunHandlers(InstructionSelector_select(s, Head(ms)), Tail(ms))

\* handler sequences that change flags and leave the stack as they found it
BalancedRuns ==
    {<< >>, <<"PHA", "PLA">>, <<"PHA", "SEC", "PLA">>, <<"PHP", "PLP">>,
     <<"PHP", "SEC", "SED", "PLP">>}
    \cup {<<m>> : m \in BetweenHandlers \ {"PHA"}}
    \cup {<<m, n>> : m \in {"SEC", "CLC", "SEI", "SED", "CLV"},
                     n \in {"CLI", "CLD", "DEX", "INX", "SEC"}}

\* the flags the claim names
SavedFlags == {"C", "Z", "I", "D", "V", "N"}

\* C34: PHP pushes the status byte with Break and Unused set; PLP loads
\* the pulled byte with Unused set; so PLP after PHP, with any balanced
\* sequence of handlers in between, leaves stkp and the C, Z, I, D, V, N
\* flags as they were when PHP was called.
C34_PhpPlp ==
    [][/\ (op' = "select" /\ arg' = <<"PHP">>)
          => /\ err' = "none"
             /\ RamAt(ram', 256 + stkp) = BitOr(status, 48)
             /\ stkp' = stkp - 1
             /\ \A ms \in BalancedRuns :
                    LET t == PLP(RunHandlers(CurAfter, ms))
                    IN  /\ t.err = "none"
                        /\ t.stkp = stkp
                        /\ \A f \in SavedFlags :
                               HasBit(t.status, f) = HasBit(status, f)
       /\ (op' = "select" /\ arg' = <<"PLP">>)
          => /\ err' = "none"
             /\ stkp' = stkp + 1
             /\ status' = BitOr(RamAt(ram, 256 + stkp'), 32)]_vars

\* PHP with status 0xC3 at stkp 0xFD, CLC in between, PLP: the Carry that
\* CLC cleared is set again
C34_Witness ==
    /\ op = "select" /\ arg = <<"PLP">> /\ err = "none" /\ ncalls = 3
    /\ stkp = 253 /\ RamAt(ram, 509) = 243 /\ status = 243

\* the clock() call dispatches the mnemonic mn
Dispatches(mn) ==
    op' = "clock" /\ ndisp' = ndisp + 1 /\ Lookup(opcode').opcode = mn

\* the register goes from r to r2 = (r + d) mod 256, with Z and N of r2
ByteStep(r, r2, d) ==
    /\ err' = "none"
    /\ r2 = (r + d) % 256
    /\ HasBit(status', "Z") = (IF r2 = 0 THEN 1 ELSE 0)
    /\ HasBit(status', "N") = r2 \div 128

\* C35: x and y always hold a value in 0..255: DEX/DEY and INX/INY step the
\* register modulo 256 (0x00 - 1 = 0xFF with N set and Z clear,
\* 0xFF + 1 = 0x00 with Z set and N clear), and INC/DEC step the stored byte
\* the same way.
C35_ByteRegisters ==
    [][/\ x' \in 0..255 /\ y' \in 0..255
       /\ Dispatches("DEX") => ByteStep(x, x', -1)
       /\ Dispatches("DEY") => ByteStep(y, y', -1)
       /\ Dispatches("INX") => ByteStep(x, x', 1)
       /\ Dispatches("INY") => ByteStep(y, y', 1)
       /\ Dispatches("DEC")
            => ByteStep(RamAt(ram, addr_abs'), RamAt(ram', addr_abs'), -1)
       /\ Dispatches("INC")
            => ByteStep(RamAt(ram, addr_abs'), RamAt(ram', addr_abs'), 1)]_vars

\* the part of C35 about INC and DEC on memory
C35_MemoryWraps ==
    [][/\ Dispatches("DEC")
            => ByteStep(RamAt(ram, addr_abs'), RamAt(ram', addr_abs'), -1)
       /\ Dispatches("INC")
            => ByteStep(RamAt(ram, addr_abs'), RamAt(ram', addr_abs'), 1)]_vars

\* C36: cycles is never negative: reset(), irq() and nmi() leave it
\* positive, a clock() call that dispatches sets it to the instruction's
\* cost, at least 2, before it subtracts one, so cycles >= 1 right after a
\* dispatch, and a clock() call that does not dispatch finds it positive.
C36_Cycles ==
    [][/\ cycles' >= 0
       /\ (op' = "clock" /\ err' = "none")
          => /\ ndisp' # ndisp => (cost' >= 2 /\ cycles' = cost' - 1 /\ cycles' >= 1)
             /\ ndisp' = ndisp => (cycles >= 1 /\ cycles' = cycles - 1)
       /\ (op' \in {"reset", "nmi"} \/ (op' = "irq" /\ HasBit(status, "I") = 0))
          => cycles' \in {7, 8}]_vars

\* after a reset, the clock() call that dispatched a two-cycle instruction
C36_Witness ==
    /\ op = "clock" /\ err = "none" /\ ncalls >= 1 /\ ndisp >= 1
    /\ since = 1 /\ cost = 2 /\ cycles = 1

\* the step is an interrupt that is serviced
Serviced == op' = "nmi" \/ (op' = "irq" /\ HasBit(status, "I") = 0)

\* C37: when irq() with InterruptDisable clear, or nmi(), is serviced and
\* RTI is then executed with the stack as the interrupt left it, pc and
\* stkp are what they were immediately before the interrupt call; RTI
\* itself pulls status, pc low, pc high and raises stkp by 3.
C37_InterruptReturn ==
    [][/\ Serviced
          => LET t == RTI(CurAfter)
             IN  t.err = "none" /\ t.pc = pc /\ t.stkp = stkp
       /\ Dispatches("RTI")
          => /\ err' = "none"
             /\ stkp' = stkp + 3
             /\ pc' = RamAt(ram, 256 + stkp + 2) + 256 * RamAt(ram, 256 + stkp + 3)]_vars

\* the same for the interrupts that arrive while pc is a 16-bit address
C37_FromAddress ==
    [][/\ (Serviced /\ pc \in 0..65535)
          => LET t == RTI(CurAfter)
             IN  t.err = "none" /\ t.pc = pc /\ t.stkp = stkp
       /\ Dispatches("RTI")
          => /\ err' = "none"
             /\ stkp' = stkp + 3
             /\ pc' = RamAt(ram, 256 + stkp + 2) + 256 * RamAt(ram, 256 + stkp + 3)]_vars

\* C38: after an irq() serviced with InterruptDisable clear, the RTI that
\* returns from the handler leaves InterruptDisable clear again, so the
\* next irq() call is serviced.
C38_Reenabled ==
    [][(op' = "irq" /\ HasBit(status, "I") = 0)
       => LET t == RTI(CurAfter)
          IN  /\ t.err = "none"
              /\ HasBit(t.status, "I") = 0
              /\ irq(t).pc = RamAt(ram, 65534) + 256 * RamAt(ram, 65535)
              /\ irq(t).stkp = t.stkp - 3]_vars

\* C39: a clock() call that dispatches an opcode whose table entry is JAM
\* fails with ValueError and leaves the memory, a, x, y, stkp and every
\* status flag except Unused as they were; pc has advanced past the opcode.
C39_JamDispatch ==
    [][Dispatches("JAM")
       => /\ err' = "ValueError"
          /\ UNCHANGED <<ram, a, x, y, stkp>>
          /\ \A f \in Flags \ {"U"} : HasBit(status', f) = HasBit(status, f)
          /\ pc' = pc + 1 /\ opcode' = RamAt(ram, pc)]_vars

\* after reset() and the wait, opcode 0x02 was fetched at 0x8000 and raised:
\* the registers are those of the reset, cycles is the table's undecremented 2
C39_Witness ==
    /\ op = "clock" /\ err = "ValueError" /\ ncalls = 1 /\ ndisp = 1
    /\ opcode = 2 /\ pc = ProgramBase + 1 /\ stkp = 253 /\ status = 32
    /\ cycles = 2

\* the mnemonics C40 names as leaving the memory alone
ReadOnlyMnemonics ==
    {"ADC", "SBC", "AND", "ORA", "EOR", "BIT", "CMP", "CPX", "CPY",
     "LDA", "LDX", "LDY", "JMP", "NOP"}
    \cup BranchMnemonics
    \cup {"TAX", "TAY", "TSX", "TXA", "TXS", "TYA"}
    \cup {"CLC", "CLD", "CLI", "CLV", "SEC", "SED", "SEI"}

\* the stores and the instructions that push
StoreMnemonics == {"STA", "STX", "STY", "PHA", "PHP", "JSR", "BRK"}

\* the read-modify-write instructions
ModifyMnemonics == {"ASL", "LSR", "ROL", "ROR", "INC", "DEC"}

\* C40: an instruction of the read-only list, in any addressing mode,
\* leaves every memory cell as it was; a clock() call changes memory only
\* when it dispatches a store, a push, or a read-modify-write instruction
\* whose operand is in memory.
C40_MemoryFrame ==
    [][op' = "clock"
       => /\ (ndisp' # ndisp /\ Lookup(opcode').opcode \in ReadOnlyMnemonics)
             => ram' = ram
          /\ ram' # ram
             => /\ ndisp' # ndisp
                /\ \/ Lookup(opcode').opcode \in StoreMnemonics
                   \/ /\ Lookup(opcode').opcode \in ModifyMnemonics
                      /\ Lookup(opcode').addr_mode # "IMP"]_vars

\* CMP abs,X with x = 1 compared the operand byte 0xFF, which is still in
\* its cell
C40_Witness ==
    /\ op = "clock" /\ err = "none" /\ ndisp = 3 /\ opcode = 221
    /\ x = 1 /\ fetched = 255 /\ RamAt(ram, addr_abs) = 255

====
